---- MODULE Spec2Model ----
(***************************************************************************)
(* A model of the metrics engine of code_metrics_analyzer.py: the line     *)
(* classifier (SLOCAnalyzer), the McCabe visitor                           *)
(* (CyclomaticComplexityAnalyzer), the def/use visitor (DataFlowAnalyzer), *)
(* the token counter (HalsteadAnalyzer) and the batch driver               *)
(* (CodebaseAnalyzer), and of the cost model of cocomo_analysis.py         *)
(* (COCOMOCalculator).  Each part has a specification of its own; the      *)
(* variables of the other parts stay at their initial values.              *)
(***************************************************************************)
EXTENDS Integers, Sequences, FiniteSets, TLC

VARIABLES
    \* SLOCAnalyzer
    metrics,                \* self.metrics
    sloc_pc,                \* "idle": between calls; "loop": inside `for line in lines`
    pending,                \* lines of `lines` the loop has not reached yet
    line,                   \* the loop variable `line` (the line just classified)
    in_multiline_comment,   \* the local of analyze_file
    sloc_calls,             \* analyze_file calls made so far
    \* CyclomaticComplexityAnalyzer
    cc_pc,                  \* "idle", "visit" (inside self.visit(tree)), "done"
    cc_tree,                \* the nodes of the parsed tree reached so far, in preorder
    cc_stack,               \* the active visit_* calls, outermost first, with their locals
    current_function,       \* self.current_function
    current_complexity,     \* self.current_complexity
    current_line,           \* self.current_line
    complexities,           \* self.complexities
    cc_result,              \* what analyze_file returned
    \* DataFlowAnalyzer
    df_pc,                  \* "idle", "visit" (inside self.visit(tree)), "done"
    df_tree,                \* the nodes of the parsed tree reached so far, in preorder
    df_stack,               \* the active visit_* calls, outermost first, with their locals
    df_current_function,    \* self.current_function
    current_defs,           \* self.current_defs
    current_uses,           \* self.current_uses
    def_use_chains,         \* self.def_use_chains
    df_current_line,        \* self.current_line
    functions,              \* self.functions
    df_result,              \* what analyze_file returned
    \* HalsteadAnalyzer
    h_pc,                   \* "idle", "visit" (inside self.visit(tree)), "done"
    h_tree,                 \* the nodes of the parsed tree reached so far, in preorder
    operators,              \* self.operators
    operands,               \* self.operands
    h_result,               \* what analyze_file returned
    \* CodebaseAnalyzer
    codebase,               \* the .py files under root_path, as rglob lists them
    python_files,           \* self.python_files
    results,                \* self.results
    cb_pc,                  \* "idle"; the loop analyze is in: "sloc", "cyclomatic",
                            \* "halstead", "dataflow"; "done" after analyze returned
    cb_i,                   \* the position of the running loop in python_files
    sloc_analyzer,          \* the metrics of the local sloc_analyzer of analyze
    cb_calls,               \* analyze calls made so far
    summary,                \* what generate_summary returned last
    \* COCOMOCalculator
    project_metrics,        \* the ProjectMetrics the methods are called with
    project_type,           \* what classify_project returned ("" before the call)
    type_arg,               \* the project_type estimate_cost_drivers was called with
    cost_drivers,           \* what estimate_cost_drivers returned
    cm_call                 \* the estimate asked for: method, arguments, returned

slocVars == <<metrics, sloc_pc, pending, line, in_multiline_comment, sloc_calls>>

ccVars == <<cc_pc, cc_tree, cc_stack, current_function, current_complexity,
            current_line, complexities, cc_result>>

dfVars == <<df_pc, df_tree, df_stack, df_current_function, current_defs, current_uses,
            def_use_chains, df_current_line, functions, df_result>>

halVars == <<h_pc, h_tree, operators, operands, h_result>>

cbVars == <<codebase, python_files, results, cb_pc, cb_i, sloc_analyzer, cb_calls,
            summary>>

cmVars == <<project_metrics, project_type, type_arg, cost_drivers, cm_call>>

vars == <<slocVars, ccVars, dfVars, halVars, cbVars, cmVars>>

-----------------------------------------------------------------------------
(* Bounds. *)

\* analyze_file calls on one SLOCAnalyzer
MaxFiles == 2
\* lines in one file
MaxLines == 2
\* tokens in one line
MaxLineLen == 2
\* nodes of one parsed tree the complexity visitor reaches (the Module node aside)
MaxCCNodes == 3
\* nodes of one parsed tree the data-flow visitor reacts to
MaxDFNodes == 3
\* nodes of one parsed tree the Halstead visitor reaches (the Module node aside)
MaxHNodes == 3
\* files under root_path
MaxUnits == 2
\* analyze calls on one CodebaseAnalyzer
MaxAnalyzeCalls == 2

-----------------------------------------------------------------------------
(* SLOCAnalyzer: lines as token sequences.                                  *)
(* " " is a whitespace character, "#" the comment marker, "DQ3" the         *)
(* delimiter of three double quotes, "SQ3" the delimiter of three single    *)
(* quotes, "x" any other character.                                         *)

LineTokens == {" ", "#", "DQ3", "SQ3", "x"}

RECURSIVE SeqsUpTo(_, _)
SeqsUpTo(S, n) ==
    IF n = 0 THEN {<<>>}
    ELSE LET shorter == SeqsUpTo(S, n - 1)
         IN  shorter \cup {Append(s, t) : s \in {u \in shorter : Len(u) = n - 1}, t \in S}

Lines == SeqsUpTo(LineTokens, MaxLineLen)

RECURSIVE LStrip(_)
LStrip(s) == IF s # <<>> /\ Head(s) = " " THEN LStrip(Tail(s)) ELSE s

RECURSIVE RStrip(_)
RStrip(s) == IF s # <<>> /\ s[Len(s)] = " " THEN RStrip(SubSeq(s, 1, Len(s) - 1)) ELSE s

\* str.strip()
Strip(s) == RStrip(LStrip(s))

\* '"""' in stripped or "'''" in stripped
HasTripleQuote(stripped) == \E i \in 1..Len(stripped) : stripped[i] \in {"DQ3", "SQ3"}

\* stripped.startswith('#')
StartsWithHash(stripped) == stripped # <<>> /\ Head(stripped) = "#"

\* the number of triple-quote delimiters in a line
CountDelims(s) == Cardinality({i \in 1..Len(s) : s[i] \in {"DQ3", "SQ3"}})

Inc(m, key) == [m EXCEPT ![key] = @ + 1]

\* a plausible slip: the closing delimiter line of a block is not counted
SlocCount_CloseNotCounted(m, l, inml) ==
    LET stripped == Strip(l) IN
    IF stripped = <<>> THEN Inc(m, "blank_lines")
    ELSE IF HasTripleQuote(stripped)
         THEN (IF inml THEN m ELSE Inc(m, "comment_lines"))
    ELSE IF inml THEN Inc(m, "comment_lines")
    ELSE IF StartsWithHash(stripped) THEN Inc(m, "comment_lines")
    ELSE Inc(m, "source_lines")

\* a plausible slip: the block state is not consulted for a line without a delimiter
SlocCount_BlockIgnored(m, l, inml) ==
    LET stripped == Strip(l) IN
    IF stripped = <<>> THEN Inc(m, "blank_lines")
    ELSE IF HasTripleQuote(stripped) THEN Inc(m, "comment_lines")
    ELSE IF StartsWithHash(stripped) THEN Inc(m, "comment_lines")
    ELSE Inc(m, "source_lines")

\* one iteration of the loop: the counters after `line` was classified
SlocCount(m, l, inml) ==
    LET stripped == Strip(l) IN
    IF stripped = <<>> THEN Inc(m, "blank_lines")
    ELSE IF HasTripleQuote(stripped) THEN Inc(m, "comment_lines")
    ELSE IF inml THEN Inc(m, "comment_lines")
    ELSE IF StartsWithHash(stripped) THEN Inc(m, "comment_lines")
    ELSE Inc(m, "source_lines")

\* a plausible slip: the state flips once per delimiter, not once per line
SlocFlag_PerDelimiter(l, inml) ==
    LET stripped == Strip(l) IN
    IF stripped = <<>> THEN inml
    ELSE IF CountDelims(stripped) % 2 = 1 THEN ~inml
    ELSE inml

\* one iteration of the loop: in_multiline_comment after `line` was classified
SlocFlag(l, inml) ==
    LET stripped == Strip(l) IN
    IF stripped = <<>> THEN inml
    ELSE IF HasTripleQuote(stripped) THEN (IF inml THEN FALSE ELSE TRUE)
    ELSE inml

SlocInit ==
    /\ metrics = [total_lines |-> 0, source_lines |-> 0, comment_lines |-> 0,
                  blank_lines |-> 0, files_analyzed |-> 0]
    /\ sloc_pc = "idle"
    /\ pending = 0
    /\ line = <<>>
    /\ in_multiline_comment = FALSE
    /\ sloc_calls = 0

\* analyze_file on a file that open() or readlines() cannot read: the except
\* clause is reached before any counter was touched
SlocAnalyzeUnreadable ==
    /\ sloc_pc = "idle"
    /\ sloc_calls < MaxFiles
    /\ sloc_calls' = sloc_calls + 1
    /\ UNCHANGED <<metrics, sloc_pc, pending, line, in_multiline_comment>>

\* analyze_file up to the loop: readlines() gave n lines
SlocAnalyzeOpen ==
    /\ sloc_pc = "idle"
    /\ sloc_calls < MaxFiles
    /\ \E n \in 0..MaxLines :
        /\ metrics' = [metrics EXCEPT !.files_analyzed = @ + 1,
                                      !.total_lines = @ + n]
        /\ pending' = n
    /\ in_multiline_comment' = FALSE
    /\ sloc_pc' = "loop"
    /\ sloc_calls' = sloc_calls + 1
    /\ UNCHANGED line

\* one iteration of `for line in lines`.  The content of a line is drawn when
\* the loop reaches it: nothing the loop does before depends on it.
SlocLine ==
    /\ sloc_pc = "loop"
    /\ pending > 0
    /\ \E l \in Lines :
        /\ line' = l
        /\ metrics' = SlocCount(metrics, l, in_multiline_comment)
        /\ in_multiline_comment' = SlocFlag(l, in_multiline_comment)
    /\ pending' = pending - 1
    /\ UNCHANGED <<sloc_pc, sloc_calls>>

\* the loop ends and analyze_file returns: its locals are gone
SlocReturn ==
    /\ sloc_pc = "loop"
    /\ pending = 0
    /\ sloc_pc' = "idle"
    /\ line' = <<>>
    /\ in_multiline_comment' = FALSE
    /\ UNCHANGED <<metrics, pending, sloc_calls>>

-----------------------------------------------------------------------------
(* CyclomaticComplexityAnalyzer.                                            *)
(* The parsed tree is met node by node, in the order ast.NodeVisitor walks  *)
(* it: cc_tree keeps each node reached with its depth below the Module      *)
(* node, so a node's subtree is the run of deeper nodes that follows it.    *)
(* What comes next in the tree is drawn when the visitor gets there.        *)

NoFunction == "None"

FunctionKinds == {"FunctionDef", "AsyncFunctionDef"}

\* the declarations drawn: node kind and node.name
FunctionDecls == {<<"FunctionDef", "f">>, <<"FunctionDef", "g">>, <<"AsyncFunctionDef", "g">>}

\* node kinds with a visit_ method that adds one
CountedKinds == {"If", "While", "For", "ExceptHandler", "With", "Assert"}

\* node kinds without a visit_ method (these two, and likewise Try, ClassDef,
\* Expr, IfExp, ...): NodeVisitor.generic_visit walks them
UnhandledKinds == {"AsyncFor", "AsyncWith"}

\* len(node.values) of a BoolOp
BoolOpSizes == {2, 3}

CCNode(kind, depth, name, values) ==
    [kind |-> kind, depth |-> depth, name |-> name, values |-> values]

\* node.lineno of the i-th node reached: every node on a line of its own
CCLineNo(i) == i

CCFrame(node, prev_function, prev_complexity) ==
    [node |-> node, prev_function |-> prev_function, prev_complexity |-> prev_complexity]

CCInit ==
    /\ cc_pc = "idle"
    /\ cc_tree = <<>>
    /\ cc_stack = <<>>
    /\ current_function = NoFunction
    /\ current_complexity = 0
    /\ current_line = 0
    /\ complexities = <<>>
    /\ cc_result = <<>>

\* a plausible slip: the accumulator of a function starts at 0
BaseComplexity_Zero == 1 - 1

\* self.current_complexity = 1  # Base complexity
BaseComplexity == 1

\* a plausible slip: the enclosing accumulator is not put back
RestoreComplexity_NotRestored(prev_complexity, nested_complexity) == nested_complexity

\* self.current_complexity = prev_complexity
RestoreComplexity(prev_complexity, nested_complexity) == prev_complexity

\* analyze_file: ast.parse raises SyntaxError (or open fails), [] is returned
CC_analyze_file_error ==
    /\ cc_pc = "idle"
    /\ cc_pc' = "done"
    /\ cc_result' = <<>>
    /\ UNCHANGED <<cc_tree, cc_stack, current_function, current_complexity,
                   current_line, complexities>>

\* analyze_file: the file parses and self.visit(tree) starts on the Module node
CC_analyze_file_parse ==
    /\ cc_pc = "idle"
    /\ cc_pc' = "visit"
    /\ UNCHANGED <<cc_tree, cc_stack, current_function, current_complexity,
                   current_line, complexities, cc_result>>

\* the innermost active call is inside an expression (the test of an assert,
\* an operand of a BoolOp): ast.parse puts no statement there
CCInExpression ==
    \E k \in 1..Len(cc_stack) : cc_tree[cc_stack[k].node].kind \in {"Assert", "BoolOp"}

\* the visitor reaches one more node, a child of the innermost active call
CCReach(kind, name, values) ==
    /\ cc_pc = "visit"
    /\ Len(cc_tree) < MaxCCNodes
    /\ CCInExpression => kind = "BoolOp"
    /\ cc_tree' = Append(cc_tree, CCNode(kind, Len(cc_stack), name, values))

\* visit_FunctionDef / visit_AsyncFunctionDef up to generic_visit(node)
CC_visit_FunctionDef ==
    \E decl \in FunctionDecls :
        /\ CCReach(decl[1], decl[2], 0)
        /\ cc_stack' = Append(cc_stack,
                CCFrame(Len(cc_tree) + 1, current_function, current_complexity))
        /\ current_function' = decl[2]
        /\ current_complexity' = BaseComplexity
        /\ current_line' = CCLineNo(Len(cc_tree) + 1)
        /\ UNCHANGED <<cc_pc, complexities, cc_result>>

\* visit_FunctionDef after generic_visit(node) returned: record and restore
CC_visit_FunctionDef_return ==
    /\ cc_pc = "visit"
    /\ cc_stack # <<>>
    /\ LET frame == cc_stack[Len(cc_stack)] IN
        /\ cc_tree[frame.node].kind \in FunctionKinds
        /\ complexities' = Append(complexities,
                [function_name |-> current_function,
                 complexity |-> current_complexity,
                 line_number |-> current_line])
        /\ current_function' = frame.prev_function
        /\ current_complexity' = RestoreComplexity(frame.prev_complexity, current_complexity)
    /\ cc_stack' = SubSeq(cc_stack, 1, Len(cc_stack) - 1)
    /\ UNCHANGED <<cc_pc, cc_tree, current_line, cc_result>>

\* a visit_ method that adds `add` and calls generic_visit(node)
CCCount(kind, values, add) ==
    /\ CCReach(kind, "", values)
    /\ current_complexity' = current_complexity + add
    /\ cc_stack' = Append(cc_stack, CCFrame(Len(cc_tree) + 1, NoFunction, 0))
    /\ UNCHANGED <<cc_pc, current_function, current_line, complexities, cc_result>>

CC_visit_If == CCCount("If", 0, 1)

CC_visit_While == CCCount("While", 0, 1)

CC_visit_For == CCCount("For", 0, 1)

CC_visit_ExceptHandler == CCCount("ExceptHandler", 0, 1)

CC_visit_With == CCCount("With", 0, 1)

CC_visit_Assert == CCCount("Assert", 0, 1)

CC_visit_BoolOp == \E n \in BoolOpSizes : CCCount("BoolOp", n, n - 1)

\* a node whose kind has no visit_ method: generic_visit(node)
CC_generic_visit == \E kind \in UnhandledKinds : CCCount(kind, 0, 0)

\* generic_visit(node) of a node that is no function returns
CC_generic_visit_return ==
    /\ cc_pc = "visit"
    /\ cc_stack # <<>>
    /\ cc_tree[cc_stack[Len(cc_stack)].node].kind \notin FunctionKinds
    /\ cc_stack' = SubSeq(cc_stack, 1, Len(cc_stack) - 1)
    /\ UNCHANGED <<cc_pc, cc_tree, current_function, current_complexity,
                   current_line, complexities, cc_result>>

\* self.visit(tree) returns and analyze_file returns self.complexities
CC_analyze_file_return ==
    /\ cc_pc = "visit"
    /\ cc_stack = <<>>
    /\ cc_pc' = "done"
    /\ cc_result' = complexities
    /\ UNCHANGED <<cc_tree, cc_stack, current_function, current_complexity,
                   current_line, complexities>>

-----------------------------------------------------------------------------
(* DataFlowAnalyzer.                                                        *)
(* df_tree keeps, in the order the visitor meets them, the nodes it reacts  *)
(* to: function declarations, assignments, augmented assignments and        *)
(* names.  A node of any other kind is walked by the inherited              *)
(* generic_visit, which changes nothing and meets its children in the same  *)
(* order, so it is left out.  Below a function are the statements of its    *)
(* body; below an assignment are the names its value reads.  The names that *)
(* the target expression of an assignment reads are kept in the field       *)
(* `reads` of the assignment's node: the visitor never meets them.          *)

Names == {"x", "y"}

\* a target that is no ast.Name (a subscript, an attribute, a tuple)
NonName == "<target>"

\* the targets of a plain assignment drawn: the name assigned (or NonName) and
\* the names the target expression reads: `x = ..`, `y = ..`, a tuple of
\* stored names, and `x[0] = ..` or `x.attr = ..`, which loads x
AssignTargets ==
    {<<"x", {}>>, <<"y", {}>>, <<NonName, {}>>, <<NonName, {"x"}>>}

\* the targets of an augmented assignment drawn: a name, or a subscript or an
\* attribute, which loads its base
AugAssignTargets ==
    {<<"x", {}>>, <<"y", {}>>, <<NonName, {"x"}>>}

\* the declarations drawn: node kind, node.name, the names of node.args.args,
\* and the names of the other parameters (posonlyargs, vararg, kwonlyargs, kwarg)
DFDecls ==
    {<<"FunctionDef", "f", {"x"}, {}>>,
     <<"FunctionDef", "g", {}, {"y"}>>,
     <<"AsyncFunctionDef", "g", {}, {}>>}

DFNode(kind, depth, name, ctx, args, others, reads) ==
    [kind |-> kind, depth |-> depth, name |-> name, ctx |-> ctx,
     args |-> args, others |-> others, reads |-> reads]

\* node.lineno of the i-th node met: every node on a line of its own
DFLineNo(i) == i

DFFrame(node, prev_function, prev_defs, prev_uses, prev_chains) ==
    [node |-> node, prev_function |-> prev_function, prev_defs |-> prev_defs,
     prev_uses |-> prev_uses, prev_chains |-> prev_chains]

\* defaultdict(list) with no key
EmptyChains == [n \in {} |-> <<>>]

\* self.def_use_chains[name].append(lineno)
ChainAppend(chains, name, lineno) ==
    IF name \in DOMAIN chains
    THEN [chains EXCEPT ![name] = Append(@, lineno)]
    ELSE chains @@ (name :> <<lineno>>)

\* a plausible slip: every name read is live, defined or not
LiveVariables_AllUses(uses, defs) == uses

\* live_vars = self.current_uses - self.current_defs
LiveVariables(uses, defs) == uses \ defs

\* a plausible slip: the nested function's definitions are merged into the
\* enclosing ones
RestoreDefs_Merged(prev_defs, nested_defs) == prev_defs \cup nested_defs

\* self.current_defs = prev_defs
RestoreDefs(prev_defs, nested_defs) == prev_defs

DFInit ==
    /\ df_pc = "idle"
    /\ df_tree = <<>>
    /\ df_stack = <<>>
    /\ df_current_function = NoFunction
    /\ current_defs = {}
    /\ current_uses = {}
    /\ def_use_chains = EmptyChains
    /\ df_current_line = 0
    /\ functions = <<>>
    /\ df_result = <<>>

\* analyze_file: ast.parse or open raises, [] is returned
DF_analyze_file_error ==
    /\ df_pc = "idle"
    /\ df_pc' = "done"
    /\ df_result' = <<>>
    /\ UNCHANGED <<df_tree, df_stack, df_current_function, current_defs, current_uses,
                   def_use_chains, df_current_line, functions>>

\* analyze_file: the file parses and self.visit(tree) starts on the Module node
DF_analyze_file_parse ==
    /\ df_pc = "idle"
    /\ df_pc' = "visit"
    /\ UNCHANGED <<df_tree, df_stack, df_current_function, current_defs, current_uses,
                   def_use_chains, df_current_line, functions, df_result>>

\* the innermost active call is visit_Assign or visit_AugAssign, inside
\* self.visit(node.value): ast.parse puts no statement in a value
DFInValue ==
    /\ df_stack # <<>>
    /\ df_tree[df_stack[Len(df_stack)].node].kind \in {"Assign", "AugAssign"}

\* the visitor meets one more node, below the innermost active call
DFReach(kind, name, ctx, args, others, reads) ==
    /\ df_pc = "visit"
    /\ Len(df_tree) < MaxDFNodes
    /\ DFInValue => kind = "Name" /\ ctx = "Load"
    /\ df_tree' = Append(df_tree, DFNode(kind, Len(df_stack), name, ctx, args, others, reads))

\* visit_FunctionDef / visit_AsyncFunctionDef up to the loop over node.body
DF_visit_FunctionDef ==
    \E decl \in DFDecls :
        /\ DFReach(decl[1], decl[2], "", decl[3], decl[4], {})
        /\ df_stack' = Append(df_stack,
                DFFrame(Len(df_tree) + 1, df_current_function, current_defs,
                        current_uses, def_use_chains))
        /\ df_current_function' = decl[2]
        /\ current_defs' = decl[3]
        /\ current_uses' = {}
        /\ def_use_chains' = EmptyChains
        /\ df_current_line' = DFLineNo(Len(df_tree) + 1)
        /\ UNCHANGED <<df_pc, functions, df_result>>

\* visit_FunctionDef after the loop over node.body: record and restore
DF_visit_FunctionDef_return ==
    /\ df_pc = "visit"
    /\ df_stack # <<>>
    /\ LET frame == df_stack[Len(df_stack)] IN
        /\ df_tree[frame.node].kind \in FunctionKinds
        /\ functions' = Append(functions,
                [function_name |-> df_current_function,
                 variables_defined |-> current_defs,
                 variables_used |-> current_uses,
                 live_variables |-> LiveVariables(current_uses, current_defs),
                 def_use_chains |-> def_use_chains,
                 reaching_definitions |-> Cardinality(current_defs)])
        /\ df_current_function' = frame.prev_function
        /\ current_defs' = RestoreDefs(frame.prev_defs, current_defs)
        /\ current_uses' = frame.prev_uses
        /\ def_use_chains' = frame.prev_chains
    /\ df_stack' = SubSeq(df_stack, 1, Len(df_stack) - 1)
    /\ UNCHANGED <<df_pc, df_tree, df_current_line, df_result>>

\* visit_Assign up to self.visit(node.value), for one target: the target
\* expression itself is not visited
DF_visit_Assign ==
    \E t \in AssignTargets : LET target == t[1] IN
        /\ DFReach("Assign", target, "", {}, {}, t[2])
        /\ current_defs' = IF target \in Names THEN current_defs \cup {target}
                           ELSE current_defs
        /\ df_stack' = Append(df_stack,
                DFFrame(Len(df_tree) + 1, NoFunction, {}, {}, EmptyChains))
        /\ UNCHANGED <<df_pc, df_current_function, current_uses, def_use_chains,
                       df_current_line, functions, df_result>>

\* visit_AugAssign up to self.visit(node.value): the target expression itself
\* is not visited
DF_visit_AugAssign ==
    \E t \in AugAssignTargets : LET target == t[1] IN
        /\ DFReach("AugAssign", target, "", {}, {}, t[2])
        /\ IF target \in Names
           THEN /\ current_uses' = current_uses \cup {target}
                /\ current_defs' = current_defs \cup {target}
                /\ def_use_chains' =
                        ChainAppend(def_use_chains, target, DFLineNo(Len(df_tree) + 1))
           ELSE UNCHANGED <<current_uses, current_defs, def_use_chains>>
        /\ df_stack' = Append(df_stack,
                DFFrame(Len(df_tree) + 1, NoFunction, {}, {}, EmptyChains))
        /\ UNCHANGED <<df_pc, df_current_function, df_current_line, functions, df_result>>

\* self.visit(node.value) returned: visit_Assign / visit_AugAssign returns
DF_visit_Assign_return ==
    /\ df_pc = "visit"
    /\ DFInValue
    /\ df_stack' = SubSeq(df_stack, 1, Len(df_stack) - 1)
    /\ UNCHANGED <<df_pc, df_tree, df_current_function, current_defs, current_uses,
                   def_use_chains, df_current_line, functions, df_result>>

\* a plausible slip: every read is chained, defined or not
DF_visit_Name_ChainForEveryRead ==
    \E id \in Names, ctx \in {"Load", "Store"} :
        /\ DFReach("Name", id, ctx, {}, {}, {})
        /\ IF ctx = "Load"
           THEN /\ current_uses' = current_uses \cup {id}
                /\ def_use_chains' =
                        ChainAppend(def_use_chains, id, DFLineNo(Len(df_tree) + 1))
           ELSE UNCHANGED <<current_uses, def_use_chains>>
        /\ UNCHANGED <<df_pc, df_stack, df_current_function, current_defs,
                       df_current_line, functions, df_result>>

\* visit_Name
DF_visit_Name ==
    \E id \in Names, ctx \in {"Load", "Store"} :
        /\ DFReach("Name", id, ctx, {}, {}, {})
        /\ IF ctx = "Load"
           THEN /\ current_uses' = current_uses \cup {id}
                /\ def_use_chains' =
                        IF id \in current_defs
                        THEN ChainAppend(def_use_chains, id, DFLineNo(Len(df_tree) + 1))
                        ELSE def_use_chains
           ELSE UNCHANGED <<current_uses, def_use_chains>>
        /\ UNCHANGED <<df_pc, df_stack, df_current_function, current_defs,
                       df_current_line, functions, df_result>>

\* self.visit(tree) returns and analyze_file returns self.functions
DF_analyze_file_return ==
    /\ df_pc = "visit"
    /\ df_stack = <<>>
    /\ df_pc' = "done"
    /\ df_result' = functions
    /\ UNCHANGED <<df_tree, df_stack, df_current_function, current_defs, current_uses,
                   def_use_chains, df_current_line, functions>>

-----------------------------------------------------------------------------
(* HalsteadAnalyzer.                                                        *)
(* Every visit_ method appends to the lists and then calls generic_visit,   *)
(* so the lists depend only on the nodes of the tree in preorder: h_tree    *)
(* keeps them in that order.  visit_Num and visit_Str are not modelled:     *)
(* ast.parse yields Constant nodes, and visit_Constant is overridden.       *)
(* The float fields of a record are kept in thousandths, rounded down.      *)

\* node.op.__class__.__name__ of the operator expressions drawn
BinOps == {"Add"}

UnaryOps == {"USub"}

BoolOps == {"And"}

\* node.ops of the comparisons drawn: `a < b` and `a < b > c`
CompareOps == {<<"Lt">>, <<"Lt", "Gt">>}

\* the statement kinds whose handler appends the kind name and nothing else
KeywordKinds == {"If", "For", "While", "Return", "Assign", "AugAssign"}

\* node.name of the declarations drawn, by kind
DeclNames == [FunctionDef |-> {"f"}, ClassDef |-> {"C"}]

\* node.id of the names drawn
HNames == {"x", "f"}

\* node.value of the constants drawn, as <<type, spelling>>: the integer 1,
\* the string '1' and the string 'x'
HValues == {<<"int", "1">>, <<"str", "1">>, <<"str", "x">>}

\* str(node.value)
HStr(value) == value[2]

HNode(kind, ops, name, value) ==
    [kind |-> kind, ops |-> ops, name |-> name, value |-> value]

\* the return value None, where a record is returned otherwise
None == [None |-> TRUE]

\* set(list)
Range(list) == {list[i] : i \in DOMAIN list}

\* math.log2(v) in thousandths, rounded down
Log2Milli(v) ==
    <<0, 1000, 1584, 2000, 2321, 2584, 2807, 3000,
      3169, 3321, 3459, 3584, 3700, 3807, 3906, 4000>>[v]

\* a plausible slip: the unit is skipped only when both lists are empty
HalsteadSkip_BothEmpty(n1, n2) == n1 = 0 /\ n2 = 0

\* a plausible slip: the unit is skipped when a list has at most one distinct token
HalsteadSkip_AtMostOne(n1, n2) == n1 <= 1 \/ n2 <= 1

\* if n1 == 0 or n2 == 0: return None
HalsteadSkip(n1, n2) == n1 = 0 \/ n2 = 0

\* the HalsteadMetrics record that analyze_file builds from the four counts
HalsteadRecord(n1, n2, N1, N2) ==
    LET vocabulary == n1 + n2
        length == N1 + N2
        calc_length == (IF n1 > 0 THEN n1 * Log2Milli(n1) ELSE 0)
                       + (IF n2 > 0 THEN n2 * Log2Milli(n2) ELSE 0)
        volume == IF vocabulary > 0 THEN length * Log2Milli(vocabulary) ELSE 0
        difficulty == IF n2 > 0 THEN (n1 * N2 * 1000) \div (2 * n2) ELSE 0
        effort == (difficulty * volume) \div 1000
    IN  [n1 |-> n1, n2 |-> n2, N1 |-> N1, N2 |-> N2,
         vocabulary |-> vocabulary,
         length |-> length,
         calculated_length |-> calc_length,
         volume |-> volume,
         difficulty |-> difficulty,
         effort |-> effort,
         time |-> effort \div 18,
         bugs |-> volume \div 3000]

\* what analyze_file returns after the walk, from the two lists
HalsteadResult(ops, opnds) ==
    LET n1 == Cardinality(Range(ops))
        n2 == Cardinality(Range(opnds))
        N1 == Len(ops)
        N2 == Len(opnds)
    IN  IF HalsteadSkip(n1, n2) THEN None ELSE HalsteadRecord(n1, n2, N1, N2)

HalInit ==
    /\ h_pc = "idle"
    /\ h_tree = <<>>
    /\ operators = <<>>
    /\ operands = <<>>
    /\ h_result = None

\* analyze_file: ast.parse or open raises, None is returned
H_analyze_file_error ==
    /\ h_pc = "idle"
    /\ h_pc' = "done"
    /\ h_result' = None
    /\ UNCHANGED <<h_tree, operators, operands>>

\* analyze_file: the file parses and self.visit(tree) starts on the Module node
H_analyze_file_parse ==
    /\ h_pc = "idle"
    /\ h_pc' = "visit"
    /\ UNCHANGED <<h_tree, operators, operands, h_result>>

\* the visitor meets one more node
HReach(node) ==
    /\ h_pc = "visit"
    /\ Len(h_tree) < MaxHNodes
    /\ h_tree' = Append(h_tree, node)
    /\ UNCHANGED <<h_pc, h_result>>

\* a handler that appends the operators `ops` and the operands `opnds`
HAppend(ops, opnds) ==
    /\ operators' = operators \o ops
    /\ operands' = operands \o opnds

H_visit_BinOp ==
    \E op \in BinOps :
        HReach(HNode("BinOp", <<op>>, "", <<>>)) /\ HAppend(<<op>>, <<>>)

H_visit_UnaryOp ==
    \E op \in UnaryOps :
        HReach(HNode("UnaryOp", <<op>>, "", <<>>)) /\ HAppend(<<op>>, <<>>)

H_visit_BoolOp ==
    \E op \in BoolOps :
        HReach(HNode("BoolOp", <<op>>, "", <<>>)) /\ HAppend(<<op>>, <<>>)

\* for op in node.ops: self.operators.append(op.__class__.__name__)
H_visit_Compare ==
    \E ops \in CompareOps :
        HReach(HNode("Compare", ops, "", <<>>)) /\ HAppend(ops, <<>>)

H_visit_Call ==
    HReach(HNode("Call", <<>>, "", <<>>)) /\ HAppend(<<"Call">>, <<>>)

H_visit_FunctionDef ==
    \E name \in DeclNames.FunctionDef :
        HReach(HNode("FunctionDef", <<>>, name, <<>>))
        /\ HAppend(<<"FunctionDef">>, <<name>>)

H_visit_ClassDef ==
    \E name \in DeclNames.ClassDef :
        HReach(HNode("ClassDef", <<>>, name, <<>>))
        /\ HAppend(<<"ClassDef">>, <<name>>)

\* visit_If, visit_For, visit_While, visit_Return, visit_Assign, visit_AugAssign
HKeyword(kind) ==
    HReach(HNode(kind, <<>>, "", <<>>)) /\ HAppend(<<kind>>, <<>>)

H_visit_If == HKeyword("If")

H_visit_For == HKeyword("For")

H_visit_While == HKeyword("While")

H_visit_Return == HKeyword("Return")

H_visit_Assign == HKeyword("Assign")

H_visit_AugAssign == HKeyword("AugAssign")

H_visit_Name ==
    \E id \in HNames :
        HReach(HNode("Name", <<>>, id, <<>>)) /\ HAppend(<<>>, <<id>>)

H_visit_Constant ==
    \E value \in HValues :
        HReach(HNode("Constant", <<>>, "", value)) /\ HAppend(<<>>, <<HStr(value)>>)

\* a node of a kind without a handler (Pass, Expr, List, AsyncFunctionDef, ...)
H_generic_visit ==
    HReach(HNode("Other", <<>>, "", <<>>)) /\ HAppend(<<>>, <<>>)

\* self.visit(tree) returned: the counts, the skip test and the record
H_analyze_file_return ==
    /\ h_pc = "visit"
    /\ h_pc' = "done"
    /\ h_result' = HalsteadResult(operators, operands)
    /\ UNCHANGED <<h_tree, operators, operands>>

-----------------------------------------------------------------------------
(* CodebaseAnalyzer.                                                        *)
(* A file of the tree under root_path is described by what the four         *)
(* analyzers are given in it: its lines, whether ast.parse accepts it,     *)
(* its functions, and the operator and operand tokens of its tree.         *)
(* `codebase` is the list of files in the order rglob yields them, which    *)
(* is the order of the directory entries.                                   *)

\* a function of a file, as the complexity and the data-flow visitor see it
FunctionOf(name, complexity, defined, used, chains) ==
    [function_name |-> name, complexity |-> complexity, line_number |-> 1,
     defined |-> defined, used |-> used, chains |-> chains]

\* `count` copies of `token`
RECURSIVE Repeat(_, _)
Repeat(token, count) == IF count = 0 THEN <<>> ELSE <<token>> \o Repeat(token, count - 1)

(* The files drawn, each with its lines as token sequences:                 *)
(*   a.py   def f(x):                                                       *)
(*              return x                                                    *)
(*   b.py   def g(a):                                                       *)
(*              assert a and a and ... and a        (ten operands)          *)
(*   c.py   def f(:                                 (a syntax error)        *)
(*   d.py   async def h():                                                  *)
(*              pass                                                        *)
(*   e.py   def k(a):                                                       *)
(*              assert a and a and ... and a        (eleven operands)       *)
(*   t.py   def m(a):                                                       *)
(*              assert a and a and ... and a        (nine operands)         *)
(*   u.py   """doc"""                               (leaves the block       *)
(*                                                   state of the size      *)
(*                                                   counter active)        *)
TwoCodeLines == <<(<<"x">>), <<" ", "x">>>>

Units ==
    [a |-> [file |-> "a.py", parses |-> TRUE, lines |-> TwoCodeLines,
            functions |-> <<FunctionOf("f", 1, {"x"}, {"x"}, [x |-> <<2>>])>>,
            operators |-> <<"FunctionDef", "Return">>,
            operands |-> <<"f", "x">>],
     b |-> [file |-> "b.py", parses |-> TRUE, lines |-> TwoCodeLines,
            functions |-> <<FunctionOf("g", 11, {"a"}, {"a"}, [a |-> Repeat(2, 10)])>>,
            operators |-> <<"FunctionDef", "And">>,
            operands |-> <<"g">> \o Repeat("a", 10)],
     c |-> [file |-> "c.py", parses |-> FALSE, lines |-> <<(<<"x">>)>>,
            functions |-> <<>>,
            operators |-> <<>>,
            operands |-> <<>>],
     d |-> [file |-> "d.py", parses |-> TRUE, lines |-> TwoCodeLines,
            functions |-> <<FunctionOf("h", 1, {}, {}, EmptyChains)>>,
            operators |-> <<>>,
            operands |-> <<>>],
     e |-> [file |-> "e.py", parses |-> TRUE, lines |-> TwoCodeLines,
            functions |-> <<FunctionOf("k", 12, {"a"}, {"a"}, [a |-> Repeat(2, 11)])>>,
            operators |-> <<"FunctionDef", "And">>,
            operands |-> <<"k">> \o Repeat("a", 11)],
     t |-> [file |-> "t.py", parses |-> TRUE, lines |-> TwoCodeLines,
            functions |-> <<FunctionOf("m", 10, {"a"}, {"a"}, [a |-> Repeat(2, 9)])>>,
            operators |-> <<"FunctionDef", "And">>,
            operands |-> <<"m">> \o Repeat("a", 9)],
     u |-> [file |-> "u.py", parses |-> TRUE, lines |-> <<(<<"DQ3", "x", "DQ3">>)>>,
            functions |-> <<>>,
            operators |-> <<>>,
            operands |-> <<"doc">>]]

UnitIds == DOMAIN Units

\* the directory listings drawn: every list of distinct files, up to MaxUnits
Codebases ==
    {files \in SeqsUpTo(UnitIds, MaxUnits) :
        \A i, j \in 1..Len(files) : i # j => files[i] # files[j]}

\* dict(), and an empty list or set where a section tests `if not ...`
EmptyDict == [key \in {} |-> None]

\* SLOCMetrics()
ZeroSloc ==
    [total_lines |-> 0, source_lines |-> 0, comment_lines |-> 0, blank_lines |-> 0,
     files_analyzed |-> 0]

\* the loop of SLOCAnalyzer.analyze_file over the lines left, with the block
\* state the lines before left behind
RECURSIVE SlocLoop(_, _, _)
SlocLoop(m, lines, inml) ==
    IF lines = <<>> THEN m
    ELSE SlocLoop(SlocCount(m, Head(lines), inml), Tail(lines),
                  SlocFlag(Head(lines), inml))

\* sloc_analyzer.analyze_file(filepath): the lines of a file are counted
\* whether or not the file is valid Python; in_multiline_comment is a local
\* variable that starts False
SlocAdd(m, u) ==
    SlocLoop([m EXCEPT !.files_analyzed = @ + 1, !.total_lines = @ + Len(u.lines)],
             u.lines, FALSE)

\* {'file': ..., **asdict(metric)} of one CyclomaticMetrics
CyclomaticEntry(fn, file) ==
    [file |-> file, function_name |-> fn.function_name, complexity |-> fn.complexity,
     line_number |-> fn.line_number]

\* the entries CyclomaticComplexityAnalyzer().analyze_file adds for a file:
\* none when ast.parse raises
CyclomaticEntries(u) ==
    IF u.parses
    THEN [i \in 1..Len(u.functions) |-> CyclomaticEntry(u.functions[i], u.file)]
    ELSE <<>>

\* HalsteadAnalyzer().analyze_file(filepath)
HalsteadOf(u) ==
    IF u.parses THEN HalsteadResult(u.operators, u.operands) ELSE None

\* flow_dict of one DataFlowMetrics
DataflowEntry(fn, file) ==
    [file |-> file, function_name |-> fn.function_name,
     variables_defined |-> fn.defined, variables_used |-> fn.used,
     live_variables |-> LiveVariables(fn.used, fn.defined),
     def_use_chains |-> fn.chains,
     reaching_definitions |-> Cardinality(fn.defined)]

\* the entries DataFlowAnalyzer().analyze_file adds for a file
DataflowEntries(u) ==
    IF u.parses
    THEN [i \in 1..Len(u.functions) |-> DataflowEntry(u.functions[i], u.file)]
    ELSE <<>>

\* self.results['halstead'][file] = asdict(metrics)
DictSet(dict, key, value) ==
    IF key \in DOMAIN dict THEN [dict EXCEPT ![key] = value]
    ELSE dict @@ (key :> value)

\* self.results after __init__
EmptyResults ==
    [sloc |-> None, cyclomatic |-> <<>>, halstead |-> EmptyDict, dataflow |-> <<>>]

CBInit ==
    /\ codebase \in Codebases
    /\ python_files = <<>>
    /\ results = EmptyResults
    /\ cb_pc = "idle"
    /\ cb_i = 0
    /\ sloc_analyzer = ZeroSloc
    /\ cb_calls = 0
    /\ summary = None

\* the file the running loop is at
CBFile == Units[python_files[cb_i]]

\* the loop variable moves on; after the last file the next loop starts
CBAdvance(next_pc) ==
    IF cb_i < Len(python_files)
    THEN cb_i' = cb_i + 1 /\ cb_pc' = cb_pc
    ELSE cb_i' = 1 /\ cb_pc' = next_pc

\* a plausible slip: the listing is cleared before the files are enumerated
CB_analyze_ListCleared ==
    /\ cb_pc \in {"idle", "done"}
    /\ cb_calls < MaxAnalyzeCalls
    /\ cb_calls' = cb_calls + 1
    /\ python_files' = codebase
    /\ IF python_files' = <<>>
       THEN cb_pc' = "done" /\ UNCHANGED <<cb_i, sloc_analyzer>>
       ELSE cb_pc' = "sloc" /\ cb_i' = 1 /\ sloc_analyzer' = ZeroSloc
    /\ UNCHANGED <<codebase, results, summary>>

\* analyze up to the first loop: find_python_files appends to python_files
CB_analyze ==
    /\ cb_pc \in {"idle", "done"}
    /\ cb_calls < MaxAnalyzeCalls
    /\ cb_calls' = cb_calls + 1
    /\ python_files' = python_files \o codebase
    /\ IF python_files' = <<>>
       THEN cb_pc' = "done" /\ UNCHANGED <<cb_i, sloc_analyzer>>
       ELSE cb_pc' = "sloc" /\ cb_i' = 1 /\ sloc_analyzer' = ZeroSloc
    /\ UNCHANGED <<codebase, results, summary>>

\* one iteration of the SLOC loop; after the last one results['sloc'] is set
CB_sloc_file ==
    /\ cb_pc = "sloc"
    /\ sloc_analyzer' = SlocAdd(sloc_analyzer, CBFile)
    /\ results' = IF cb_i < Len(python_files) THEN results
                  ELSE [results EXCEPT !.sloc = sloc_analyzer']
    /\ CBAdvance("cyclomatic")
    /\ UNCHANGED <<codebase, python_files, cb_calls, summary>>

\* a plausible slip: one analyzer is made before the loop, so what
\* analyze_file returns for a file includes the records of the file before
CB_cyclomatic_file_SharedAnalyzer ==
    /\ cb_pc = "cyclomatic"
    /\ results' = [results EXCEPT !.cyclomatic =
                        @ \o (IF cb_i > 1
                              THEN CyclomaticEntries(Units[python_files[cb_i - 1]])
                              ELSE <<>>)
                          \o CyclomaticEntries(CBFile)]
    /\ CBAdvance("halstead")
    /\ UNCHANGED <<codebase, python_files, sloc_analyzer, cb_calls, summary>>

\* one iteration of the cyclomatic loop
CB_cyclomatic_file ==
    /\ cb_pc = "cyclomatic"
    /\ results' = [results EXCEPT !.cyclomatic = @ \o CyclomaticEntries(CBFile)]
    /\ CBAdvance("halstead")
    /\ UNCHANGED <<codebase, python_files, sloc_analyzer, cb_calls, summary>>

\* a plausible slip: a file without a Halstead record is entered with zeros
CB_halstead_file_ZeroFilled ==
    /\ cb_pc = "halstead"
    /\ LET file_metrics == HalsteadOf(CBFile)
           zeros == [n1 |-> 0, n2 |-> 0, N1 |-> 0, N2 |-> 0, vocabulary |-> 0,
                     length |-> 0, calculated_length |-> 0, volume |-> 0,
                     difficulty |-> 0, effort |-> 0, time |-> 0, bugs |-> 0]
       IN
        results' = IF file_metrics # None
                   THEN [results EXCEPT !.halstead = DictSet(@, CBFile.file, file_metrics)]
                   ELSE [results EXCEPT !.halstead = DictSet(@, CBFile.file, zeros)]
    /\ CBAdvance("dataflow")
    /\ UNCHANGED <<codebase, python_files, sloc_analyzer, cb_calls, summary>>

\* one iteration of the Halstead loop
CB_halstead_file ==
    /\ cb_pc = "halstead"
    /\ LET file_metrics == HalsteadOf(CBFile) IN
        results' = IF file_metrics # None
                   THEN [results EXCEPT !.halstead = DictSet(@, CBFile.file, file_metrics)]
                   ELSE results
    /\ CBAdvance("dataflow")
    /\ UNCHANGED <<codebase, python_files, sloc_analyzer, cb_calls, summary>>

\* one iteration of the data-flow loop; after the last one analyze returns
CB_dataflow_file ==
    /\ cb_pc = "dataflow"
    /\ results' = [results EXCEPT !.dataflow = @ \o DataflowEntries(CBFile)]
    /\ CBAdvance("done")
    /\ UNCHANGED <<codebase, python_files, sloc_analyzer, cb_calls, summary>>

\* sum(f[k] for k in keys)
RECURSIVE SumOver(_, _)
SumOver(f, keys) ==
    IF keys = {} THEN 0
    ELSE LET k == CHOOSE k \in keys : TRUE
         IN  f[k] + SumOver(f, keys \ {k})

\* max(f.values()), min(f.values())
MaxOf(f) == CHOOSE v \in {f[k] : k \in DOMAIN f} : \A k \in DOMAIN f : f[k] <= v

MinOf(f) == CHOOSE v \in {f[k] : k \in DOMAIN f} : \A k \in DOMAIN f : v <= f[k]

\* the exception a division by zero raises
ZeroDivisionError == [raised |-> "ZeroDivisionError"]

\* a plausible slip: a section is computed without the emptiness test
NoEntries_NotTested(count) == FALSE

\* `if not self.results[...]: return {}`
NoEntries(count) == count = 0

\* a plausible slip: complexity 10 counts as high
SummarizeCyclomatic_ThresholdInclusive(cyclomatic) ==
    IF NoEntries(Len(cyclomatic)) THEN EmptyDict
    ELSE LET complexity_list == [i \in 1..Len(cyclomatic) |-> cyclomatic[i].complexity]
         IN  IF Len(complexity_list) = 0 THEN ZeroDivisionError
             ELSE [total_functions |-> Len(complexity_list),
                   average_complexity |->
                        (SumOver(complexity_list, DOMAIN complexity_list) * 1000)
                            \div Len(complexity_list),
                   max_complexity |-> MaxOf(complexity_list),
                   min_complexity |-> MinOf(complexity_list),
                   high_complexity_functions |->
                        SelectSeq(cyclomatic, LAMBDA m : m.complexity >= 10)]

\* _summarize_cyclomatic; the quotient is kept in thousandths, rounded down
SummarizeCyclomatic(cyclomatic) ==
    IF NoEntries(Len(cyclomatic)) THEN EmptyDict
    ELSE LET complexity_list == [i \in 1..Len(cyclomatic) |-> cyclomatic[i].complexity]
         IN  IF Len(complexity_list) = 0 THEN ZeroDivisionError
             ELSE [total_functions |-> Len(complexity_list),
                   average_complexity |->
                        (SumOver(complexity_list, DOMAIN complexity_list) * 1000)
                            \div Len(complexity_list),
                   max_complexity |-> MaxOf(complexity_list),
                   min_complexity |-> MinOf(complexity_list),
                   high_complexity_functions |->
                        SelectSeq(cyclomatic, LAMBDA m : m.complexity > 10)]

\* _summarize_halstead
SummarizeHalstead(halstead) ==
    LET files == DOMAIN halstead
        count == Cardinality(files)
    IN  IF NoEntries(count) THEN EmptyDict
        ELSE IF count = 0 THEN ZeroDivisionError
        ELSE [total_files_analyzed |-> count,
              average_volume |->
                    SumOver([k \in files |-> halstead[k].volume], files) \div count,
              total_effort |-> SumOver([k \in files |-> halstead[k].effort], files),
              estimated_bugs |-> SumOver([k \in files |-> halstead[k].bugs], files),
              average_difficulty |->
                    SumOver([k \in files |-> halstead[k].difficulty], files) \div count]

\* _summarize_dataflow
SummarizeDataflow(dataflow) ==
    LET entries == DOMAIN dataflow
        count == Len(dataflow)
    IN  IF NoEntries(count) THEN EmptyDict
        ELSE IF count = 0 THEN ZeroDivisionError
        ELSE [total_functions_analyzed |-> count,
              total_variables_defined |->
                    SumOver([i \in entries |-> Cardinality(dataflow[i].variables_defined)],
                            entries),
              total_variables_used |->
                    SumOver([i \in entries |-> Cardinality(dataflow[i].variables_used)],
                            entries),
              average_live_variables |->
                    (SumOver([i \in entries |-> Cardinality(dataflow[i].live_variables)],
                             entries) * 1000) \div count]

\* generate_summary: an exception raised in a section leaves the call
GenerateSummary(files, res) ==
    LET cyclomatic_summary == SummarizeCyclomatic(res.cyclomatic)
        halstead_summary == SummarizeHalstead(res.halstead)
        dataflow_summary == SummarizeDataflow(res.dataflow)
    IN  IF ZeroDivisionError \in {cyclomatic_summary, halstead_summary, dataflow_summary}
        THEN ZeroDivisionError
        ELSE [total_files |-> Len(files),
              sloc_summary |-> res.sloc,
              cyclomatic_summary |-> cyclomatic_summary,
              halstead_summary |-> halstead_summary,
              dataflow_summary |-> dataflow_summary]

\* generate_summary, called before analyze or after it returned
CB_generate_summary ==
    /\ cb_pc \in {"idle", "done"}
    /\ summary' = GenerateSummary(python_files, results)
    /\ UNCHANGED <<codebase, python_files, results, cb_pc, cb_i, sloc_analyzer, cb_calls>>

\* a CodebaseAnalyzer that is never used
CBIdle == CBInit /\ codebase = <<>>

-----------------------------------------------------------------------------
(* COCOMOCalculator (cocomo_analysis.py).                                   *)
(* cyclomatic_avg and the ratings are kept in hundredths (9.0 is 900, 1.15  *)
(* is 115); kloc = sloc / 1000 is kept in thousandths, which is sloc.       *)

\* a level the rating table leaves undefined (None)
NotRated == -1

\* EAF_VALUES: very low, low, nominal, high, very high, extra high
EAF_VALUES ==
    [RELY |-> <<75, 88, 100, 115, 140, NotRated>>,
     DATA |-> <<NotRated, 94, 100, 108, 116, NotRated>>,
     CPLX |-> <<70, 85, 100, 115, 130, 165>>,
     TIME |-> <<NotRated, NotRated, 100, 111, 130, 166>>,
     STOR |-> <<NotRated, NotRated, 100, 106, 121, 156>>,
     VIRT |-> <<NotRated, 87, 100, 115, 130, NotRated>>,
     TURN |-> <<NotRated, 87, 100, 107, 115, NotRated>>,
     ACAP |-> <<146, 119, 100, 86, 71, NotRated>>,
     AEXP |-> <<129, 113, 100, 91, 82, NotRated>>,
     PCAP |-> <<142, 117, 100, 86, 70, NotRated>>,
     VEXP |-> <<121, 110, 100, 90, NotRated, NotRated>>,
     LEXP |-> <<114, 107, 100, 95, NotRated, NotRated>>,
     MODP |-> <<124, 110, 100, 91, 82, NotRated>>,
     TOOL |-> <<124, 110, 100, 91, 83, NotRated>>,
     SCED |-> <<123, 108, 100, 104, 110, NotRated>>]

\* the keys of BASIC_COEFFICIENTS
ProjectTypes == {"organic", "semi-detached", "embedded"}

\* the project_type arguments drawn for estimate_cost_drivers
ProjectTypeArgs == ProjectTypes \cup {"unknown"}

\* the ProjectMetrics drawn: values at and around every threshold
SlocValues == {0, 49999, 50000, 299999, 300000}

CyclomaticAvgs == {0, 500, 501, 900, 1000, 1001, 1200}

NumFiles == {0, 20, 21, 50, 51}

NumFunctions == {1, 500}

ProjectMetrics(sloc, cyclomatic_avg, num_functions, num_files) ==
    [name |-> "project", sloc |-> sloc, cyclomatic_avg |-> cyclomatic_avg,
     halstead_effort |-> 0, halstead_bugs |-> 0,
     num_functions |-> num_functions, num_files |-> num_files]

ProjectMetricsDrawn ==
    {ProjectMetrics(sloc, avg, nfunctions, nfiles) :
        sloc \in SlocValues, avg \in CyclomaticAvgs,
        nfunctions \in NumFunctions, nfiles \in NumFiles}

\* a plausible slip: the size limits are inclusive
ClassifyProject_InclusiveLimits(m) ==
    LET kloc == m.sloc
        complexity_score ==
            (IF m.cyclomatic_avg > 1000 THEN 2 ELSE IF m.cyclomatic_avg > 500 THEN 1 ELSE 0)
            + (IF m.num_files > 50 THEN 2 ELSE IF m.num_files > 20 THEN 1 ELSE 0)
    IN  IF kloc <= 50000
        THEN IF complexity_score >= 2 THEN "semi-detached" ELSE "organic"
        ELSE IF kloc <= 300000 THEN "semi-detached"
        ELSE "embedded"

\* classify_project
ClassifyProject(m) ==
    LET kloc == m.sloc
        complexity_score ==
            (IF m.cyclomatic_avg > 1000 THEN 2 ELSE IF m.cyclomatic_avg > 500 THEN 1 ELSE 0)
            + (IF m.num_files > 50 THEN 2 ELSE IF m.num_files > 20 THEN 1 ELSE 0)
    IN  IF kloc < 50000
        THEN IF complexity_score >= 2 THEN "semi-detached" ELSE "organic"
        ELSE IF kloc < 300000 THEN "semi-detached"
        ELSE "embedded"

\* a plausible slip: the thresholds of the complexity rating are inclusive
CplxRating_InclusiveThresholds(cyclomatic_avg) ==
    IF cyclomatic_avg >= 1000 THEN 130
    ELSE IF cyclomatic_avg >= 500 THEN 115
    ELSE 100

\* drivers['CPLX'] in estimate_cost_drivers
CplxRating(cyclomatic_avg) ==
    IF cyclomatic_avg > 1000 THEN 130
    ELSE IF cyclomatic_avg > 500 THEN 115
    ELSE 100

\* a plausible slip: platform experience is rated very high, a level the
\* table does not define for VEXP
EstimateCostDrivers_UndefinedLevel(m, for_type) ==
    [RELY |-> 100, DATA |-> 94, CPLX |-> CplxRating(m.cyclomatic_avg),
     TIME |-> 100, STOR |-> 100, VIRT |-> 100, TURN |-> 87,
     ACAP |-> 86, AEXP |-> 100, PCAP |-> 86, VEXP |-> EAF_VALUES.VEXP[5], LEXP |-> 95,
     MODP |-> 91, TOOL |-> 91, SCED |-> 100]

\* estimate_cost_drivers
EstimateCostDrivers(m, for_type) ==
    [RELY |-> 100, DATA |-> 94, CPLX |-> CplxRating(m.cyclomatic_avg),
     TIME |-> 100, STOR |-> 100, VIRT |-> 100, TURN |-> 87,
     ACAP |-> 86, AEXP |-> 100, PCAP |-> 86, VEXP |-> 90, LEXP |-> 95,
     MODP |-> 91, TOOL |-> 91, SCED |-> 100]

\* BASIC_COEFFICIENTS, in hundredths
BASIC_COEFFICIENTS ==
    "organic" :> [a |-> 240, b |-> 105, c |-> 250, d |-> 38] @@
    "semi-detached" :> [a |-> 300, b |-> 112, c |-> 250, d |-> 35] @@
    "embedded" :> [a |-> 360, b |-> 120, c |-> 250, d |-> 32]

(* The floats of an estimate (effort, time, people, productivity, KLOC)    *)
(* are kept in millionths, the effort adjustment factor in billionths     *)
(* while it is multiplied up.                                               *)

\* eaf = 1.0
Nano == 10^9

\* the KeyError of a dictionary lookup
KeyError == [raised |-> "KeyError"]

\* a call ended by an exception
Raised(returned) == "raised" \in DOMAIN returned

(* The products and quotients of floats are computed exactly and rounded   *)
(* down, in steps that keep every intermediate value within the 32-bit    *)
(* integers.                                                                *)

\* value * hundredths / 100
MulHundredths(value, hundredths) ==
    (value \div 100) * hundredths + ((value % 100) * hundredths) \div 100

\* value * nano / 10^9, by the digit groups of both factors
MulNano(value, nano) ==
    LET v1 == value \div 10^4
        v0 == value % 10^4
        n2 == nano \div 10^6
        n1 == (nano \div 10^3) % 10^3
        n0 == nano % 10^3
        carry1 == (v0 * n0) \div 10^3
        carry2 == (v1 * n0 * 10 + v0 * n1 + carry1) \div 10^3
        carry3 == (v1 * n1 * 10 + v0 * n2 + carry2) \div 10^3
    IN  v1 * n2 * 10 + carry3

\* <<rest * 10 \div den, rest * 10 % den>> for rest < den
TimesTen(rest, den) ==
    LET five == rest * 5
        twice == (five % den) * 2
    IN  <<(five \div den) * 2 + twice \div den, twice % den>>

\* <<num * 10^digits \div den, num * 10^digits % den>>
RECURSIVE LongDivision(_, _, _)
LongDivision(num, den, digits) ==
    IF digits = 0 THEN <<num \div den, num % den>>
    ELSE LET before == LongDivision(num, den, digits - 1)
             digit == TimesTen(before[2], den)
         IN  <<before[1] * 10 + digit[1], digit[2]>>

\* num / den in millionths, for num and den in the same unit
Quotient(num, den) == LongDivision(num, den, 6)[1]

\* round(): the nearest multiple of unit, a tie to the even one, counted in
\* units
Round(value, unit) ==
    LET quotient == value \div unit
        remainder == value % unit
    IN  IF 2 * remainder > unit \/ (2 * remainder = unit /\ quotient % 2 = 1)
        THEN quotient + 1
        ELSE quotient

\* base ** exponent in millionths (base in millionths, exponent in
\* hundredths), for the bases the calls drawn reach: the float results of
\* kloc ** coef['b'] and effort ** coef['d'], to the nearest millionth
PowTable ==
    <<0, 32>> :> 0 @@
    <<0, 35>> :> 0 @@
    <<0, 38>> :> 0 @@
    <<0, 105>> :> 0 @@
    <<0, 112>> :> 0 @@
    <<0, 120>> :> 0 @@
    <<1000000, 105>> :> 1000000 @@
    <<1000000, 112>> :> 1000000 @@
    <<1000000, 120>> :> 1000000 @@
    <<1027789, 38>> :> 1010470 @@
    <<1129438, 38>> :> 1047340 @@
    <<1181957, 38>> :> 1065587 @@
    <<1284736, 35>> :> 1091654 @@
    <<1336126, 38>> :> 1116406 @@
    <<1411798, 35>> :> 1128289 @@
    <<1477447, 35>> :> 1146382 @@
    <<1541684, 32>> :> 1148573 @@
    <<1670157, 35>> :> 1196644 @@
    <<1694158, 32>> :> 1183764 @@
    <<1772936, 32>> :> 1201107 @@
    <<2004189, 32>> :> 1249167 @@
    <<2400000, 38>> :> 1394698 @@
    <<3000000, 35>> :> 1468901 @@
    <<3600000, 32>> :> 1506665 @@
    <<50000000, 105>> :> 60802090 @@
    <<50000000, 112>> :> 79955143 @@
    <<50000000, 120>> :> 109336207 @@
    <<62491745, 38>> :> 4812964 @@
    <<68672248, 38>> :> 4988579 @@
    <<71865507, 38>> :> 5075488 @@
    <<81239269, 38>> :> 5317544 @@
    <<102721313, 35>> :> 5059192 @@
    <<112880564, 35>> :> 5228977 @@
    <<118129510, 35>> :> 5312824 @@
    <<133537707, 35>> :> 5545764 @@
    <<145925016, 38>> :> 6643077 @@
    <<168561897, 32>> :> 5158970 @@
    <<185232854, 32>> :> 5317038 @@
    <<193846181, 32>> :> 5394936 @@
    <<219130466, 32>> :> 5610801 @@
    <<239865429, 35>> :> 6807516 @@
    <<393610345, 32>> :> 6767391

\* base ** exponent
Pow(base, exponent) == PowTable[<<base, exponent>>]

\* the KLOC arguments drawn for the estimates, in thousandths: 0, 1 and 50
KlocArgs == {0, 1000, 50 * 1000}

\* the order in which estimate_cost_drivers inserts the drivers, which is the
\* order of cost_drivers.items()
DriverOrder ==
    <<"RELY", "DATA", "CPLX", "TIME", "STOR", "VIRT", "TURN", "ACAP", "AEXP",
      "PCAP", "VEXP", "LEXP", "MODP", "TOOL", "SCED">>

\* a mapping without one of its ratings
Without(drivers, driver) ==
    [key \in DOMAIN drivers \ {driver} |-> drivers[key]]

\* the cost_drivers arguments drawn for calculate_intermediate_cocomo: what
\* estimate_cost_drivers returns, and one such mapping that lacks TOOL
CostDriverArgs ==
    LET estimated == {EstimateCostDrivers(m, "organic") : m \in ProjectMetricsDrawn}
    IN  estimated
        \cup {Without(EstimateCostDrivers(ProjectMetrics(0, 0, 1, 0), "organic"), "TOOL")}

\* eaf after the first count items of cost_drivers.items(), in billionths
RECURSIVE EafLoop(_, _)
EafLoop(drivers, count) ==
    IF count = 0 THEN Nano
    ELSE IF DriverOrder[count] \in DOMAIN drivers
         THEN MulHundredths(EafLoop(drivers, count - 1), drivers[DriverOrder[count]])
         ELSE EafLoop(drivers, count - 1)

\* a plausible slip: people is time / effort
CalculateBasicCocomo_PeopleInverted(kloc, ptype) ==
    IF ptype \notin DOMAIN BASIC_COEFFICIENTS THEN KeyError
    ELSE LET coef == BASIC_COEFFICIENTS[ptype]
             effort == MulHundredths(Pow(kloc * 1000, coef.b), coef.a)
             time == MulHundredths(Pow(effort, coef.d), coef.c)
         IN  IF time = 0 \/ effort = 0 THEN ZeroDivisionError
             ELSE [effort_pm |-> Round(effort, 10^4),
                   time_months |-> Round(time, 10^4),
                   avg_people |-> Round(Quotient(time, effort), 10^4),
                   productivity |-> Round(Quotient(kloc * 1000, effort), 10^3)]

\* a plausible slip: a project without effort is given an empty estimate
CalculateBasicCocomo_GuardedDivision(kloc, ptype) ==
    IF ptype \notin DOMAIN BASIC_COEFFICIENTS THEN KeyError
    ELSE LET coef == BASIC_COEFFICIENTS[ptype]
             effort == MulHundredths(Pow(kloc * 1000, coef.b), coef.a)
             time == MulHundredths(Pow(effort, coef.d), coef.c)
         IN  IF time = 0 \/ effort = 0
             THEN [effort_pm |-> 0, time_months |-> 0, avg_people |-> 0,
                   productivity |-> 0]
             ELSE [effort_pm |-> Round(effort, 10^4),
                   time_months |-> Round(time, 10^4),
                   avg_people |-> Round(Quotient(effort, time), 10^4),
                   productivity |-> Round(Quotient(kloc * 1000, effort), 10^3)]

\* calculate_basic_cocomo(kloc, project_type): the record returned, with
\* effort_pm, time_months and avg_people in hundredths and productivity in
\* thousandths, or the exception raised.  effort / time raises when time is
\* 0.0, kloc / effort when effort is 0.0.
CalculateBasicCocomo(kloc, ptype) ==
    IF ptype \notin DOMAIN BASIC_COEFFICIENTS THEN KeyError
    ELSE LET coef == BASIC_COEFFICIENTS[ptype]
             effort == MulHundredths(Pow(kloc * 1000, coef.b), coef.a)
             time == MulHundredths(Pow(effort, coef.d), coef.c)
         IN  IF time = 0 \/ effort = 0 THEN ZeroDivisionError
             ELSE [effort_pm |-> Round(effort, 10^4),
                   time_months |-> Round(time, 10^4),
                   avg_people |-> Round(Quotient(effort, time), 10^4),
                   productivity |-> Round(Quotient(kloc * 1000, effort), 10^3)]

\* a plausible slip: the adjusted effort is reported as the base effort
CalculateIntermediateCocomo_BaseIsAdjusted(kloc, ptype, drivers) ==
    LET eaf == EafLoop(drivers, Len(DriverOrder))
    IN  IF ptype \notin DOMAIN BASIC_COEFFICIENTS THEN KeyError
        ELSE LET coef == BASIC_COEFFICIENTS[ptype]
                 base_effort == MulHundredths(Pow(kloc * 1000, coef.b), coef.a)
                 effort == MulNano(base_effort, eaf)
                 time == MulHundredths(Pow(effort, coef.d), coef.c)
             IN  IF time = 0 \/ effort = 0 THEN ZeroDivisionError
                 ELSE [effort_pm |-> Round(effort, 10^4),
                       time_months |-> Round(time, 10^4),
                       avg_people |-> Round(Quotient(effort, time), 10^4),
                       productivity |-> Round(Quotient(kloc * 1000, effort), 10^3),
                       eaf |-> Round(eaf, 10^6),
                       base_effort_pm |-> Round(effort, 10^4)]

\* calculate_intermediate_cocomo(kloc, project_type, cost_drivers): the
\* record returned (eaf in thousandths), or the exception raised
CalculateIntermediateCocomo(kloc, ptype, drivers) ==
    LET eaf == EafLoop(drivers, Len(DriverOrder))
    IN  IF ptype \notin DOMAIN BASIC_COEFFICIENTS THEN KeyError
        ELSE LET coef == BASIC_COEFFICIENTS[ptype]
                 base_effort == MulHundredths(Pow(kloc * 1000, coef.b), coef.a)
                 effort == MulNano(base_effort, eaf)
                 time == MulHundredths(Pow(effort, coef.d), coef.c)
             IN  IF time = 0 \/ effort = 0 THEN ZeroDivisionError
                 ELSE [effort_pm |-> Round(effort, 10^4),
                       time_months |-> Round(time, 10^4),
                       avg_people |-> Round(Quotient(effort, time), 10^4),
                       productivity |-> Round(Quotient(kloc * 1000, effort), 10^3),
                       eaf |-> Round(eaf, 10^6),
                       base_effort_pm |-> Round(base_effort, 10^4)]

\* _generate_assumptions: the two formatted texts are kept as the values
\* they interpolate
GenerateAssumptions(m, ptype) ==
    [project_classification |-> <<ptype, m.sloc, m.cyclomatic_avg>>,
     reliability |-> "Nominal reliability assumed",
     complexity |-> <<m.cyclomatic_avg>>,
     team_capability |-> "High capability assumed",
     tools |-> "Modern tools assumed",
     schedule |-> "Nominal schedule",
     database |-> "Low database complexity"]

\* analyze_project(metrics): the record returned, or the exception one of the
\* two estimates raised
AnalyzeProject(m) ==
    LET kloc == m.sloc
        ptype == ClassifyProject(m)
        basic_results == CalculateBasicCocomo(kloc, ptype)
        drivers == EstimateCostDrivers(m, ptype)
        intermediate_results == CalculateIntermediateCocomo(kloc, ptype, drivers)
    IN  IF Raised(basic_results) THEN basic_results
        ELSE IF Raised(intermediate_results) THEN intermediate_results
        ELSE [project_name |-> m.name,
              kloc |-> kloc,
              project_type |-> ptype,
              basic_cocomo |-> basic_results,
              intermediate_cocomo |-> intermediate_results,
              cost_drivers |-> drivers,
              assumptions |-> GenerateAssumptions(m, ptype)]

\* no call made yet
CMIdle ==
    /\ project_type = ""
    /\ type_arg = ""
    /\ cost_drivers = None
    /\ cm_call = None

CMInit ==
    /\ project_metrics \in ProjectMetricsDrawn
    /\ CMIdle

\* a COCOMOCalculator that is never used
CMUnused == CMIdle /\ project_metrics = ProjectMetrics(0, 0, 1, 0)

\* classify_project(metrics)
CM_classify_project ==
    /\ project_type = ""
    /\ cm_call = None
    /\ project_type' = ClassifyProject(project_metrics)
    /\ UNCHANGED <<project_metrics, type_arg, cost_drivers, cm_call>>

\* estimate_cost_drivers(metrics, project_type)
CM_estimate_cost_drivers ==
    /\ cost_drivers = None
    /\ cm_call = None
    /\ \E type \in ProjectTypeArgs :
        /\ type_arg' = type
        /\ cost_drivers' = EstimateCostDrivers(project_metrics, type)
    /\ UNCHANGED <<project_metrics, project_type, cm_call>>

\* calculate_basic_cocomo(kloc, project_type).  The calculator keeps no
\* state (__init__ is empty), so a behaviour follows one estimate.
CM_calculate_basic_cocomo ==
    /\ CMIdle
    /\ \E kloc \in KlocArgs, type \in ProjectTypeArgs :
        cm_call' = [method |-> "calculate_basic_cocomo", kloc |-> kloc,
                    project_type |-> type, cost_drivers |-> None,
                    returned |-> CalculateBasicCocomo(kloc, type)]
    /\ UNCHANGED <<project_metrics, project_type, type_arg, cost_drivers>>

\* calculate_intermediate_cocomo(kloc, project_type, cost_drivers)
CM_calculate_intermediate_cocomo ==
    /\ CMIdle
    /\ \E kloc \in KlocArgs, type \in ProjectTypeArgs, drivers \in CostDriverArgs :
        cm_call' = [method |-> "calculate_intermediate_cocomo", kloc |-> kloc,
                    project_type |-> type, cost_drivers |-> drivers,
                    returned |-> CalculateIntermediateCocomo(kloc, type, drivers)]
    /\ UNCHANGED <<project_metrics, project_type, type_arg, cost_drivers>>

\* analyze_project(metrics), for the metrics whose size is one of KlocArgs
CM_analyze_project ==
    /\ CMIdle
    /\ project_metrics.sloc \in KlocArgs
    /\ cm_call' = [method |-> "analyze_project", kloc |-> project_metrics.sloc,
                   project_type |-> ClassifyProject(project_metrics),
                   cost_drivers |-> None,
                   returned |-> AnalyzeProject(project_metrics)]
    /\ UNCHANGED <<project_metrics, project_type, type_arg, cost_drivers>>

-----------------------------------------------------------------------------
(* The specifications, one per part of the program. *)

InitSLOC == SlocInit /\ CCInit /\ DFInit /\ HalInit /\ CBIdle /\ CMUnused

NextSLOC ==
    \/ SlocAnalyzeUnreadable /\ UNCHANGED <<ccVars, dfVars, halVars, cbVars, cmVars>>
    \/ SlocAnalyzeOpen /\ UNCHANGED <<ccVars, dfVars, halVars, cbVars, cmVars>>
    \/ SlocLine /\ UNCHANGED <<ccVars, dfVars, halVars, cbVars, cmVars>>
    \/ SlocReturn /\ UNCHANGED <<ccVars, dfVars, halVars, cbVars, cmVars>>

SpecSLOC == InitSLOC /\ [][NextSLOC]_vars

InitCC == SlocInit /\ CCInit /\ DFInit /\ HalInit /\ CBIdle /\ CMUnused

NextCC ==
    \/ CC_analyze_file_error /\ UNCHANGED <<slocVars, dfVars, halVars, cbVars, cmVars>>
    \/ CC_analyze_file_parse /\ UNCHANGED <<slocVars, dfVars, halVars, cbVars, cmVars>>
    \/ CC_visit_FunctionDef /\ UNCHANGED <<slocVars, dfVars, halVars, cbVars, cmVars>>
    \/ CC_visit_FunctionDef_return /\ UNCHANGED <<slocVars, dfVars, halVars, cbVars, cmVars>>
    \/ CC_visit_If /\ UNCHANGED <<slocVars, dfVars, halVars, cbVars, cmVars>>
    \/ CC_visit_While /\ UNCHANGED <<slocVars, dfVars, halVars, cbVars, cmVars>>
    \/ CC_visit_For /\ UNCHANGED <<slocVars, dfVars, halVars, cbVars, cmVars>>
    \/ CC_visit_ExceptHandler /\ UNCHANGED <<slocVars, dfVars, halVars, cbVars, cmVars>>
    \/ CC_visit_With /\ UNCHANGED <<slocVars, dfVars, halVars, cbVars, cmVars>>
    \/ CC_visit_Assert /\ UNCHANGED <<slocVars, dfVars, halVars, cbVars, cmVars>>
    \/ CC_visit_BoolOp /\ UNCHANGED <<slocVars, dfVars, halVars, cbVars, cmVars>>
    \/ CC_generic_visit /\ UNCHANGED <<slocVars, dfVars, halVars, cbVars, cmVars>>
    \/ CC_generic_visit_return /\ UNCHANGED <<slocVars, dfVars, halVars, cbVars, cmVars>>
    \/ CC_analyze_file_return /\ UNCHANGED <<slocVars, dfVars, halVars, cbVars, cmVars>>

SpecCC == InitCC /\ [][NextCC]_vars

InitDF == SlocInit /\ CCInit /\ DFInit /\ HalInit /\ CBIdle /\ CMUnused

NextDF ==
    \/ DF_analyze_file_error /\ UNCHANGED <<slocVars, ccVars, halVars, cbVars, cmVars>>
    \/ DF_analyze_file_parse /\ UNCHANGED <<slocVars, ccVars, halVars, cbVars, cmVars>>
    \/ DF_visit_FunctionDef /\ UNCHANGED <<slocVars, ccVars, halVars, cbVars, cmVars>>
    \/ DF_visit_FunctionDef_return /\ UNCHANGED <<slocVars, ccVars, halVars, cbVars, cmVars>>
    \/ DF_visit_Assign /\ UNCHANGED <<slocVars, ccVars, halVars, cbVars, cmVars>>
    \/ DF_visit_AugAssign /\ UNCHANGED <<slocVars, ccVars, halVars, cbVars, cmVars>>
    \/ DF_visit_Assign_return /\ UNCHANGED <<slocVars, ccVars, halVars, cbVars, cmVars>>
    \/ DF_visit_Name /\ UNCHANGED <<slocVars, ccVars, halVars, cbVars, cmVars>>
    \/ DF_analyze_file_return /\ UNCHANGED <<slocVars, ccVars, halVars, cbVars, cmVars>>

SpecDF == InitDF /\ [][NextDF]_vars

InitHAL == SlocInit /\ CCInit /\ DFInit /\ HalInit /\ CBIdle /\ CMUnused

NextHAL ==
    \/ H_analyze_file_error /\ UNCHANGED <<slocVars, ccVars, dfVars, cbVars, cmVars>>
    \/ H_analyze_file_parse /\ UNCHANGED <<slocVars, ccVars, dfVars, cbVars, cmVars>>
    \/ H_visit_BinOp /\ UNCHANGED <<slocVars, ccVars, dfVars, cbVars, cmVars>>
    \/ H_visit_UnaryOp /\ UNCHANGED <<slocVars, ccVars, dfVars, cbVars, cmVars>>
    \/ H_visit_BoolOp /\ UNCHANGED <<slocVars, ccVars, dfVars, cbVars, cmVars>>
    \/ H_visit_Compare /\ UNCHANGED <<slocVars, ccVars, dfVars, cbVars, cmVars>>
    \/ H_visit_Call /\ UNCHANGED <<slocVars, ccVars, dfVars, cbVars, cmVars>>
    \/ H_visit_FunctionDef /\ UNCHANGED <<slocVars, ccVars, dfVars, cbVars, cmVars>>
    \/ H_visit_ClassDef /\ UNCHANGED <<slocVars, ccVars, dfVars, cbVars, cmVars>>
    \/ H_visit_If /\ UNCHANGED <<slocVars, ccVars, dfVars, cbVars, cmVars>>
    \/ H_visit_For /\ UNCHANGED <<slocVars, ccVars, dfVars, cbVars, cmVars>>
    \/ H_visit_While /\ UNCHANGED <<slocVars, ccVars, dfVars, cbVars, cmVars>>
    \/ H_visit_Return /\ UNCHANGED <<slocVars, ccVars, dfVars, cbVars, cmVars>>
    \/ H_visit_Assign /\ UNCHANGED <<slocVars, ccVars, dfVars, cbVars, cmVars>>
    \/ H_visit_AugAssign /\ UNCHANGED <<slocVars, ccVars, dfVars, cbVars, cmVars>>
    \/ H_visit_Name /\ UNCHANGED <<slocVars, ccVars, dfVars, cbVars, cmVars>>
    \/ H_visit_Constant /\ UNCHANGED <<slocVars, ccVars, dfVars, cbVars, cmVars>>
    \/ H_generic_visit /\ UNCHANGED <<slocVars, ccVars, dfVars, cbVars, cmVars>>
    \/ H_analyze_file_return /\ UNCHANGED <<slocVars, ccVars, dfVars, cbVars, cmVars>>

SpecHAL == InitHAL /\ [][NextHAL]_vars

InitCB == SlocInit /\ CCInit /\ DFInit /\ HalInit /\ CBInit /\ CMUnused

NextCB ==
    \/ CB_analyze /\ UNCHANGED <<slocVars, ccVars, dfVars, halVars, cmVars>>
    \/ CB_sloc_file /\ UNCHANGED <<slocVars, ccVars, dfVars, halVars, cmVars>>
    \/ CB_cyclomatic_file /\ UNCHANGED <<slocVars, ccVars, dfVars, halVars, cmVars>>
    \/ CB_halstead_file /\ UNCHANGED <<slocVars, ccVars, dfVars, halVars, cmVars>>
    \/ CB_dataflow_file /\ UNCHANGED <<slocVars, ccVars, dfVars, halVars, cmVars>>
    \/ CB_generate_summary /\ UNCHANGED <<slocVars, ccVars, dfVars, halVars, cmVars>>

SpecCB == InitCB /\ [][NextCB]_vars

InitCOCOMO == SlocInit /\ CCInit /\ DFInit /\ HalInit /\ CBIdle /\ CMInit

NextCOCOMO ==
    \/ CM_classify_project /\ UNCHANGED <<slocVars, ccVars, dfVars, halVars, cbVars>>
    \/ CM_estimate_cost_drivers /\ UNCHANGED <<slocVars, ccVars, dfVars, halVars, cbVars>>
    \/ CM_calculate_basic_cocomo /\ UNCHANGED <<slocVars, ccVars, dfVars, halVars, cbVars>>
    \/ CM_calculate_intermediate_cocomo /\ UNCHANGED <<slocVars, ccVars, dfVars, halVars, cbVars>>
    \/ CM_analyze_project /\ UNCHANGED <<slocVars, ccVars, dfVars, halVars, cbVars>>

SpecCOCOMO == InitCOCOMO /\ [][NextCOCOMO]_vars

-----------------------------------------------------------------------------
(* Claims about SLOCAnalyzer, checked under SpecSLOC. *)

\* a step of the model that is one iteration of `for line in lines`
SlocLineStep == pending' < pending

LineClasses == {"blank_lines", "comment_lines", "source_lines"}

\* C1: between analyze_file calls (unreadable files included) the accumulated
\* record has total_lines = source_lines + comment_lines + blank_lines, and
\* every line of a file that was read increments exactly one of the three
\* class counters by one and leaves the rest of the record alone.
C1_TotalIsSumOfClasses ==
    /\ [](sloc_pc = "idle" =>
            metrics.total_lines =
                metrics.source_lines + metrics.comment_lines + metrics.blank_lines)
    /\ [][SlocLineStep => \E k \in LineClasses : metrics' = Inc(metrics, k)]_vars

\* C1 witness: two calls are over, one on an unreadable file and one on a file
\* whose two lines fell into two different classes.
C1_Witness ==
    /\ sloc_pc = "idle"
    /\ sloc_calls = 2
    /\ metrics.files_analyzed = 1
    /\ metrics.total_lines = 2
    /\ metrics.source_lines = 1
    /\ metrics.blank_lines = 1

\* C2 as stated: while the block state is active every line, whatever its
\* content, is counted as a comment line.
C2_Original_EveryLineInBlockIsComment ==
    [][SlocLineStep /\ in_multiline_comment
        => metrics' = Inc(metrics, "comment_lines")]_vars

\* C2 amended: while the block state is active every line that is not empty
\* after stripping whitespace, whatever its content (code included), is
\* counted as a comment line; a blank line is counted as blank.
C2_NonBlankLineInBlockIsComment ==
    [][SlocLineStep /\ in_multiline_comment
        => IF \A i \in 1..Len(line') : line'[i] = " "
           THEN metrics' = Inc(metrics, "blank_lines")
           ELSE metrics' = Inc(metrics, "comment_lines")]_vars

\* C2 witness: the second line of the first file is plain code, read while the
\* block opened by the first line is still active, and no source line was
\* counted.
C2_Witness ==
    /\ sloc_pc = "loop"
    /\ sloc_calls = 1
    /\ metrics.total_lines - pending = 2
    /\ line = <<"x">>
    /\ in_multiline_comment
    /\ metrics.comment_lines = 2
    /\ metrics.source_lines = 0

\* C3: a line that contains a triple-quote delimiter flips the block state
\* exactly once, however many delimiters it holds and whether or not it starts
\* with '#', and is counted as a comment line; a line without a delimiter
\* leaves the state as it was.
C3_DelimiterLineFlipsOnce ==
    [][SlocLineStep
        => IF \E i \in 1..Len(line') : line'[i] \in {"DQ3", "SQ3"}
           THEN /\ in_multiline_comment' = ~in_multiline_comment
                /\ metrics' = Inc(metrics, "comment_lines")
           ELSE in_multiline_comment' = in_multiline_comment]_vars

\* C3 witness: the first line of the first file starts with '#' and holds a
\* delimiter, or holds two delimiters; it opened the block and was counted as
\* comment.
C3_Witness ==
    /\ sloc_pc = "loop"
    /\ sloc_calls = 1
    /\ metrics.total_lines - pending = 1
    /\ line \in {<<"#", "DQ3">>, <<"DQ3", "SQ3">>}
    /\ in_multiline_comment
    /\ metrics.comment_lines = 1

-----------------------------------------------------------------------------
(* Claims about CyclomaticComplexityAnalyzer, checked under SpecCC.         *)
(* They are stated over the tree that was walked (cc_tree), not over the    *)
(* visitor's saved locals.                                                   *)

IsFunctionAt(tree, i) == tree[i].kind \in FunctionKinds

\* the last node of the subtree of node i, among the nodes reached so far
SubtreeEnd(tree, i) ==
    LET after == {j \in (i + 1)..Len(tree) : tree[j].depth <= tree[i].depth}
    IN  IF after = {} THEN Len(tree)
        ELSE (CHOOSE j \in after : \A k \in after : j <= k) - 1

\* the nodes below function i that are not inside a function nested in i
OwnScope(tree, i) ==
    {j \in (i + 1)..SubtreeEnd(tree, i) :
        ~ \E k \in (i + 1)..(j - 1) : IsFunctionAt(tree, k) /\ j <= SubtreeEnd(tree, k)}

\* the nodes that are inside no function at all
ModuleScope(tree) ==
    {j \in 1..Len(tree) :
        ~ \E k \in 1..(j - 1) : IsFunctionAt(tree, k) /\ j <= SubtreeEnd(tree, k)}

\* node i is still being visited when `active` visit_ calls are on the stack
IsOpen(tree, active, i) ==
    /\ tree[i].depth < active
    /\ SubtreeEnd(tree, i) = Len(tree)

OpenFunctions(tree, active) ==
    {i \in 1..Len(tree) : IsFunctionAt(tree, i) /\ IsOpen(tree, active, i)}

ClosedFunctions(tree, active) ==
    {i \in 1..Len(tree) : IsFunctionAt(tree, i) /\ ~IsOpen(tree, active, i)}

\* the innermost function being visited
Innermost(S) == CHOOSE i \in S : \A k \in S : k <= i

\* function i is left before function j is
LeftBefore(tree, i, j) ==
    \/ SubtreeEnd(tree, i) < SubtreeEnd(tree, j)
    \/ SubtreeEnd(tree, i) = SubtreeEnd(tree, j) /\ i > j

\* the position of function i in the order in which functions are left
Rank(tree, active, i) ==
    1 + Cardinality({j \in ClosedFunctions(tree, active) : LeftBefore(tree, j, i)})

CCOwnScope(i) == OwnScope(cc_tree, i)

CCOpenFunctions == OpenFunctions(cc_tree, Len(cc_stack))

CCClosedFunctions == ClosedFunctions(cc_tree, Len(cc_stack))

CCRank(i) == Rank(cc_tree, Len(cc_stack), i)

CCModuleScope == ModuleScope(cc_tree)

RECURSIVE SumAt(_, _)
SumAt(S, w) ==
    IF S = {} THEN 0
    ELSE LET j == CHOOSE x \in S : TRUE IN w[j] + SumAt(S \ {j}, w)

\* what a node adds according to the handlers the visitor has
HandlerWeights ==
    [j \in 1..Len(cc_tree) |->
        IF cc_tree[j].kind \in CountedKinds THEN 1
        ELSE IF cc_tree[j].kind = "BoolOp" THEN cc_tree[j].values - 1
        ELSE 0]

\* what a node adds according to C5: conditional branches, loops of any kind,
\* exception handlers, resource-scope constructs, assertions, and N-1 for a
\* boolean combination of N operands
ClaimedWeights ==
    [j \in 1..Len(cc_tree) |->
        IF cc_tree[j].kind \in {"If", "While", "For", "AsyncFor", "ExceptHandler",
                                "With", "AsyncWith", "Assert"} THEN 1
        ELSE IF cc_tree[j].kind = "BoolOp" THEN cc_tree[j].values - 1
        ELSE 0]

\* C4: every record emitted, for a top-level, nested or async function, has
\* complexity >= 1; so has every record analyze_file returns.
C4_ComplexityAtLeastOne ==
    /\ \A k \in 1..Len(complexities) : complexities[k].complexity >= 1
    /\ \A k \in 1..Len(cc_result) : cc_result[k].complexity >= 1

\* C4 witness: analyze_file returned the records of an async function nested in
\* another function, both without a decision point.
C4_Witness ==
    /\ cc_pc = "done"
    /\ Len(cc_result) = 2
    /\ Len(cc_tree) = 2
    /\ cc_tree[1].kind = "FunctionDef"
    /\ cc_tree[2].kind = "AsyncFunctionDef"
    /\ cc_tree[2].depth = 1
    /\ cc_result[1].complexity = 1
    /\ cc_result[2].complexity = 1

\* C5 as stated: the complexity emitted for a function is 1 + the number of
\* conditional branches, loops of any kind, exception handlers, resource-scope
\* constructs and assertions + the sum of N-1 over the boolean combinations,
\* counting what is in its body and not inside a nested function.
C5_Original_ComplexityIsDecisionCount ==
    \A i \in CCClosedFunctions :
        /\ CCRank(i) <= Len(complexities)
        /\ complexities[CCRank(i)].complexity = 1 + SumAt(CCOwnScope(i), ClaimedWeights)

\* C6: at every point of the walk current_function is the innermost function
\* being visited (None outside every function) and current_complexity holds
\* only the decision points of that function's own scope, whatever nested
\* functions were visited in between; the record of every function left holds
\* only the decision points of its own scope, starting from 1.
C6_NestedVisitRestoresEnclosing ==
    /\ cc_pc = "visit" =>
        IF CCOpenFunctions = {}
        THEN /\ current_function = NoFunction
             /\ current_complexity = SumAt(CCModuleScope, HandlerWeights)
        ELSE LET e == Innermost(CCOpenFunctions)
             IN  /\ current_function = cc_tree[e].name
                 /\ current_complexity = 1 + SumAt(CCOwnScope(e), HandlerWeights)
    /\ \A i \in CCClosedFunctions :
        /\ CCRank(i) <= Len(complexities)
        /\ complexities[CCRank(i)].function_name = cc_tree[i].name
        /\ complexities[CCRank(i)].complexity = 1 + SumAt(CCOwnScope(i), HandlerWeights)

\* C6 witness: function g, nested in f and holding an `if`, was left; the
\* visitor is back in f with f's accumulator at 1, and g's record holds 2.
C6_Witness ==
    /\ cc_pc = "visit"
    /\ Len(cc_tree) = 3
    /\ cc_tree[1].name = "f" /\ cc_tree[1].depth = 0
    /\ cc_tree[2].name = "g" /\ cc_tree[2].depth = 1
    /\ cc_tree[3].kind = "If" /\ cc_tree[3].depth = 2
    /\ Len(cc_stack) = 1
    /\ current_function = "f"
    /\ current_complexity = 1
    /\ Len(complexities) = 1
    /\ complexities[1].function_name = "g"
    /\ complexities[1].complexity = 2

\* C7 as stated: one record per function-like declaration, nested ones
\* included, each with the function's own name and the line of the function's
\* own declaration, also for a function that encloses nested declarations.
C7_Original_RecordHasOwnNameAndLine ==
    /\ Len(complexities) = Cardinality(CCClosedFunctions)
    /\ \A i \in CCClosedFunctions :
        /\ CCRank(i) <= Len(complexities)
        /\ complexities[CCRank(i)].function_name = cc_tree[i].name
        /\ complexities[CCRank(i)].line_number = CCLineNo(i)

-----------------------------------------------------------------------------
(* Claims about DataFlowAnalyzer, checked under SpecDF.                     *)
(* They are stated over the tree that was walked (df_tree), not over the    *)
(* visitor's saved locals.                                                   *)

DFOpenFunctions == OpenFunctions(df_tree, Len(df_stack))

DFClosedFunctions == ClosedFunctions(df_tree, Len(df_stack))

\* the record of function i
DFRecord(i) == functions[Rank(df_tree, Len(df_stack), i)]

\* node j assigns to the name n (plain or augmented)
DFAssigns(j, n) == df_tree[j].kind \in {"Assign", "AugAssign"} /\ df_tree[j].name = n

\* node j reads the name n
DFReads(j, n) ==
    \/ df_tree[j].kind = "Name" /\ df_tree[j].ctx = "Load" /\ df_tree[j].name = n
    \/ df_tree[j].kind = "AugAssign" /\ df_tree[j].name = n

\* the names assigned in the nodes S, with `params` defined from the start
DefinedIn(S, params) == params \cup {n \in Names : \E j \in S : DFAssigns(j, n)}

\* the names read in the nodes S
UsedIn(S) == {n \in Names : \E j \in S : DFReads(j, n)}

\* the nodes of S that read n when n is already defined: an augmented
\* assignment to n, or a read of n that follows a definition of n
ChainNodes(S, params, n) ==
    {e \in S :
        \/ df_tree[e].kind = "AugAssign" /\ df_tree[e].name = n
        \/ /\ df_tree[e].kind = "Name" /\ df_tree[e].ctx = "Load" /\ df_tree[e].name = n
           /\ n \in params \/ \E j \in S : j < e /\ DFAssigns(j, n)}

RECURSIVE LinesOf(_)
LinesOf(S) ==
    IF S = {} THEN <<>>
    ELSE LET first == CHOOSE e \in S : \A k \in S : e <= k
         IN  <<DFLineNo(first)>> \o LinesOf(S \ {first})

\* the def-use chains of the nodes S
ChainsIn(S, params) ==
    [n \in {m \in Names : ChainNodes(S, params, m) # {}} |-> LinesOf(ChainNodes(S, params, n))]

\* C8: in every record live_variables is variables_used minus
\* variables_defined, both as they stand at function exit (so a name read
\* before the function defines it is not live), and reaching_definitions is
\* the size of variables_defined.
C8_LiveIsUsedMinusDefined ==
    /\ \A k \in 1..Len(functions) :
        /\ functions[k].live_variables =
                functions[k].variables_used \ functions[k].variables_defined
        /\ functions[k].reaching_definitions = Cardinality(functions[k].variables_defined)
    /\ \A i \in DFClosedFunctions :
        /\ DFRecord(i).variables_used = UsedIn(OwnScope(df_tree, i))
        /\ DFRecord(i).variables_defined =
                DefinedIn(OwnScope(df_tree, i), df_tree[i].args)
    /\ df_pc = "done" => df_result = functions

\* C8 witness: a function without parameters read x on its first line and
\* assigned x on its second; its record has x in used and in defined, no
\* chain for x, and an empty live set.
C8_Witness ==
    /\ Len(df_tree) = 3
    /\ df_tree[1].kind \in FunctionKinds /\ df_tree[1].args = {}
    /\ df_tree[2].kind = "Name" /\ df_tree[2].ctx = "Load" /\ df_tree[2].name = "x"
    /\ df_tree[3].kind = "Assign" /\ df_tree[3].name = "x"
    /\ Len(functions) = 1
    /\ functions[1].variables_used = {"x"}
    /\ functions[1].variables_defined = {"x"}
    /\ functions[1].live_variables = {}
    /\ functions[1].reaching_definitions = 1
    /\ "x" \notin DOMAIN functions[1].def_use_chains

\* C9 as stated: no formal parameter of a function, of whatever kind, is in
\* the live set of that function's record, even when the body reads it.
C9_Original_ParameterNeverLive ==
    \A i \in DFClosedFunctions :
        (df_tree[i].args \cup df_tree[i].others) \cap DFRecord(i).live_variables = {}

\* C10: the record of every function holds the names defined and read in its
\* own scope (its parameters of node.args.args included) and the chains of
\* these reads, and nothing of a function nested in it or enclosing it; and at
\* every point of the walk the visitor's defined/used/chains are those of the
\* innermost function being visited, so leaving a nested function puts the
\* enclosing function's sets back as they were on entry.
C10_NestedContextIsolated ==
    /\ \A i \in DFClosedFunctions :
        LET own == OwnScope(df_tree, i) IN
        /\ DFRecord(i).function_name = df_tree[i].name
        /\ DFRecord(i).variables_defined = DefinedIn(own, df_tree[i].args)
        /\ DFRecord(i).variables_used = UsedIn(own)
        /\ DFRecord(i).def_use_chains = ChainsIn(own, df_tree[i].args)
    /\ df_pc = "visit" =>
        IF DFOpenFunctions = {}
        THEN /\ df_current_function = NoFunction
             /\ current_defs = DefinedIn(ModuleScope(df_tree), {})
             /\ current_uses = UsedIn(ModuleScope(df_tree))
             /\ def_use_chains = ChainsIn(ModuleScope(df_tree), {})
        ELSE LET e == Innermost(DFOpenFunctions)
                 own == OwnScope(df_tree, e)
             IN  /\ df_current_function = df_tree[e].name
                 /\ current_defs = DefinedIn(own, df_tree[e].args)
                 /\ current_uses = UsedIn(own)
                 /\ def_use_chains = ChainsIn(own, df_tree[e].args)

\* C10 witness: g, nested in f(x), assigned y and was left; g's record
\* defines y and not x, and the visitor is back in f with x defined and not y.
C10_Witness ==
    /\ df_pc = "visit"
    /\ Len(df_tree) = 3
    /\ df_tree[1].name = "f" /\ df_tree[1].args = {"x"} /\ df_tree[1].depth = 0
    /\ df_tree[2].name = "g" /\ df_tree[2].kind \in FunctionKinds /\ df_tree[2].depth = 1
    /\ df_tree[3].kind = "Assign" /\ df_tree[3].name = "y" /\ df_tree[3].depth = 2
    /\ Len(df_stack) = 1
    /\ df_current_function = "f"
    /\ current_defs = {"x"}
    /\ Len(functions) = 1
    /\ functions[1].function_name = "g"
    /\ "y" \in functions[1].variables_defined
    /\ "x" \notin functions[1].variables_defined

\* node j reads the name n, the reads inside its target expression included
DFReadsAnywhere(j, n) == DFReads(j, n) \/ n \in df_tree[j].reads

\* every name read in the nodes S
ReadIn(S) == {n \in Names : \E j \in S : DFReadsAnywhere(j, n)}

\* the nodes of S that read n, anywhere in the node, when n is already defined
ReadWhenDefined(S, params, n) ==
    ChainNodes(S, params, n) \cup
    {e \in S : /\ n \in df_tree[e].reads
               /\ n \in params \/ \E j \in S : j < e /\ DFAssigns(j, n)}

\* C11 as stated: the record of a function has in variables_used every name
\* its body reads, wherever the read occurs (inside the target expression of
\* an assignment included), and the chain of a name holds the line of every
\* read made when the name was already defined, and no other line.
C11_Original_EveryReadIsUsed ==
    \A i \in DFClosedFunctions :
        LET own == OwnScope(df_tree, i)
            params == df_tree[i].args
        IN  /\ DFRecord(i).variables_used = ReadIn(own)
            /\ DFRecord(i).def_use_chains =
                    [n \in {m \in Names : ReadWhenDefined(own, params, m) # {}} |->
                        LinesOf(ReadWhenDefined(own, params, n))]

-----------------------------------------------------------------------------
(* Claims about HalsteadAnalyzer, checked under SpecHAL.                    *)
(* They are stated over the tree that was walked (h_tree).                  *)

\* the operator kind names a node contributes, and how many occurrences
NodeOperatorKinds(node) ==
    IF node.kind \in {"BinOp", "UnaryOp", "BoolOp", "Compare"} THEN Range(node.ops)
    ELSE IF node.kind \in {"Call", "FunctionDef", "ClassDef"} \cup KeywordKinds
         THEN {node.kind}
         ELSE {}

NodeOperatorCount(node) ==
    IF node.kind \in {"BinOp", "UnaryOp", "BoolOp", "Compare"} THEN Len(node.ops)
    ELSE IF node.kind \in {"Call", "FunctionDef", "ClassDef"} \cup KeywordKinds
         THEN 1
         ELSE 0

\* the nodes that contribute an operand: identifiers, literals, declared names
OperandNodes(tree) ==
    {i \in 1..Len(tree) : tree[i].kind \in {"Name", "Constant", "FunctionDef", "ClassDef"}}

TreeOperatorKinds(tree) == UNION {NodeOperatorKinds(tree[i]) : i \in 1..Len(tree)}

RECURSIVE TreeOperatorCount(_)
TreeOperatorCount(tree) ==
    IF tree = <<>> THEN 0
    ELSE NodeOperatorCount(Head(tree)) + TreeOperatorCount(Tail(tree))

\* C12: every record analyze_file returns has n1 >= 1, n2 >= 1,
\* vocabulary = n1 + n2 and length = N1 + N2, with n1 <= N1 and n2 <= N2;
\* N1 and N2 are the operator and operand occurrences of the tree walked and
\* n1 the number of its distinct operator kinds.
C12_RecordCountsConsistent ==
    (h_pc = "done" /\ h_result # None) =>
        /\ h_result.n1 >= 1
        /\ h_result.n2 >= 1
        /\ h_result.vocabulary = h_result.n1 + h_result.n2
        /\ h_result.length = h_result.N1 + h_result.N2
        /\ h_result.n1 <= h_result.N1
        /\ h_result.n2 <= h_result.N2
        /\ h_result.N1 = TreeOperatorCount(h_tree)
        /\ h_result.N2 = Cardinality(OperandNodes(h_tree))
        /\ h_result.n1 = Cardinality(TreeOperatorKinds(h_tree))

\* C12 witness: two assignments and one name were walked; the record has one
\* distinct operator in two occurrences and one operand.
C12_Witness ==
    /\ h_pc = "done"
    /\ h_result # None
    /\ Len(h_tree) = 3
    /\ h_tree[1].kind = "Assign" /\ h_tree[2].kind = "Assign" /\ h_tree[3].kind = "Name"
    /\ h_result.n1 = 1 /\ h_result.N1 = 2
    /\ h_result.n2 = 1 /\ h_result.N2 = 1
    /\ h_result.vocabulary = 2 /\ h_result.length = 3

\* C13: after a walk, analyze_file returns no record exactly when the tree
\* has no operator node or no operand node; a record that is returned has a
\* positive volume and a positive difficulty, so a unit with one distinct
\* operator and one distinct operand gets a defined record, not a skipped and
\* not a zero-filled one.
C13_SkippedExactlyWhenEmpty ==
    h_pc = "done" =>
        /\ h_result = None <=>
                (TreeOperatorKinds(h_tree) = {} \/ OperandNodes(h_tree) = {})
        /\ h_result # None =>
                /\ h_result.volume > 0
                /\ h_result.difficulty > 0
                /\ h_result.effort > 0

\* C13 witness: the tree of `x = []`, one operator and one operand; the record
\* is defined with n1 = n2 = 1, volume 2 and difficulty 0.5.
C13_Witness ==
    /\ h_pc = "done"
    /\ Len(h_tree) = 2
    /\ h_tree[1].kind = "Assign" /\ h_tree[2].kind = "Name"
    /\ h_result # None
    /\ h_result.n1 = 1 /\ h_result.n2 = 1
    /\ h_result.volume = 2000
    /\ h_result.difficulty = 500

-----------------------------------------------------------------------------
(* Claims about CodebaseAnalyzer, checked under SpecCB.                     *)

Analyzers == {"sloc", "cyclomatic", "halstead", "dataflow"}

\* the order of the four loops of analyze
LoopRank == [sloc |-> 1, cyclomatic |-> 2, halstead |-> 3, dataflow |-> 4]

\* in the running (or last) analyze call, analyzer a has run on python_files[k];
\* an analyzer runs on a file in one step, so it has started on the file
\* exactly when it has finished on it
AnalyzerRanOn(a, k) ==
    \/ cb_pc = "done"
    \/ /\ cb_pc \in Analyzers
       /\ \/ LoopRank[a] < LoopRank[cb_pc]
          \/ LoopRank[a] = LoopRank[cb_pc] /\ k < cb_i

\* C14 as stated: units are processed one at a time; for consecutive units
\* u, v all four analyzers have finished on u before any analyzer starts on v.
C14_Original_UnitByUnit ==
    \A k \in 1..(Len(python_files) - 1) :
        (\E a \in Analyzers : AnalyzerRanOn(a, k + 1)) =>
            (\A a \in Analyzers : AnalyzerRanOn(a, k))

\* what one analyze call on a fresh CodebaseAnalyzer leaves in results for
\* the files `files`, analyzed in this order
RECURSIVE SlocFor(_)
SlocFor(files) ==
    IF files = <<>> THEN ZeroSloc
    ELSE SlocAdd(SlocFor(SubSeq(files, 1, Len(files) - 1)), Units[files[Len(files)]])

RECURSIVE CyclomaticFor(_)
CyclomaticFor(files) ==
    IF files = <<>> THEN <<>>
    ELSE CyclomaticEntries(Units[Head(files)]) \o CyclomaticFor(Tail(files))

RECURSIVE HalsteadFor(_)
HalsteadFor(files) ==
    IF files = <<>> THEN EmptyDict
    ELSE LET u == Units[files[Len(files)]]
             before == HalsteadFor(SubSeq(files, 1, Len(files) - 1))
         IN  IF HalsteadOf(u) # None THEN DictSet(before, u.file, HalsteadOf(u))
             ELSE before

RECURSIVE DataflowFor(_)
DataflowFor(files) ==
    IF files = <<>> THEN <<>>
    ELSE DataflowEntries(Units[Head(files)]) \o DataflowFor(Tail(files))

ResultsFor(files) ==
    IF files = <<>> THEN EmptyResults
    ELSE [sloc |-> SlocFor(files), cyclomatic |-> CyclomaticFor(files),
          halstead |-> HalsteadFor(files), dataflow |-> DataflowFor(files)]

\* the files of a list that ast.parse accepts
Parseable(files) == SelectSeq(files, LAMBDA id : Units[id].parses)

\* the first analyze call has returned
FirstCallDone == cb_pc = "done" /\ cb_calls = 1

\* C15 as stated: a file that cannot be parsed contributes no record and no
\* count to any of the four analyzers, the size counter included: the results
\* are those of the batch without the unparseable files.
C15_Original_UnparseableContributesNothing ==
    (FirstCallDone /\ python_files # <<>>) =>
        /\ results.sloc = SlocFor(Parseable(python_files))
        /\ results.cyclomatic = CyclomaticFor(Parseable(python_files))
        /\ results.halstead = HalsteadFor(Parseable(python_files))
        /\ results.dataflow = DataflowFor(Parseable(python_files))

\* two lists hold the same files
SameFiles(files, other) ==
    /\ Len(files) = Len(other)
    /\ Range(files) = Range(other)

\* C16 as stated: for a fixed set of files the summary is the same whatever
\* the order in which the files are processed.
C16_Original_SummaryOrderIndependent ==
    FirstCallDone =>
        \A other \in Codebases :
            SameFiles(python_files, other) =>
                GenerateSummary(python_files, results)
                    = GenerateSummary(other, ResultsFor(other))

\* C17: generate_summary never divides by zero.  Without files the size
\* section is absent and the other sections are empty; a section without
\* entries (no function record, no file with a Halstead record, no data-flow
\* record) is empty; a section with entries has its averages.
C17_SummaryNeverDividesByZero ==
    /\ summary # ZeroDivisionError
    /\ cb_pc \in {"idle", "done"} =>
        LET s == GenerateSummary(python_files, results) IN
        /\ s # ZeroDivisionError
        /\ python_files = <<>> =>
                /\ s.sloc_summary = None
                /\ s.cyclomatic_summary = EmptyDict
                /\ s.halstead_summary = EmptyDict
                /\ s.dataflow_summary = EmptyDict
        /\ IF results.cyclomatic = <<>>
           THEN s.cyclomatic_summary = EmptyDict
           ELSE s.cyclomatic_summary.total_functions = Len(results.cyclomatic)
        /\ IF DOMAIN results.halstead = {}
           THEN s.halstead_summary = EmptyDict
           ELSE s.halstead_summary.total_files_analyzed
                    = Cardinality(DOMAIN results.halstead)
        /\ IF results.dataflow = <<>>
           THEN s.dataflow_summary = EmptyDict
           ELSE s.dataflow_summary.total_functions_analyzed = Len(results.dataflow)

\* C17 witness: the summary of a batch of one file, d.py, which has a function
\* and no Halstead record: the Halstead section is empty, the cyclomatic
\* section has its average.
C17_Witness ==
    /\ cb_pc = "done"
    /\ python_files = <<"d">>
    /\ summary # None
    /\ summary.total_files = 1
    /\ summary.halstead_summary = EmptyDict
    /\ summary.cyclomatic_summary # EmptyDict
    /\ summary.cyclomatic_summary.average_complexity = 1000
    /\ summary.dataflow_summary.average_live_variables = 0

\* the results of a first analyze call are those of its files, in their order
CB_ResultsAreThoseOfTheFiles ==
    FirstCallDone => results = ResultsFor(python_files)

-----------------------------------------------------------------------------
(* Claims about COCOMOCalculator, checked under SpecCOCOMO.                 *)

\* the complexity score as the classification rule states it
StatedScore(m) ==
    (IF m.cyclomatic_avg > 10 * 100 THEN 2 ELSE IF m.cyclomatic_avg > 5 * 100 THEN 1 ELSE 0)
    + (IF m.num_files > 50 THEN 2 ELSE IF m.num_files > 20 THEN 1 ELSE 0)

Drivers == DOMAIN EAF_VALUES

\* the levels the table defines for a driver
DefinedLevels(driver) ==
    {EAF_VALUES[driver][i] : i \in 1..6} \ {NotRated}

\* C19: estimate_cost_drivers returns a rating for each of the 15 drivers of
\* EAF_VALUES and for nothing else, and each rating is one of the levels the
\* table defines for that driver.
C19_EveryDriverHasADefinedLevel ==
    cost_drivers # None =>
        /\ DOMAIN cost_drivers = Drivers
        /\ Cardinality(DOMAIN cost_drivers) = 15
        /\ \A driver \in Drivers : cost_drivers[driver] \in DefinedLevels(driver)

\* C19 witness: the ratings of a project with average complexity 12; VEXP and
\* LEXP, which have no very-high level, are rated high.
C19_Witness ==
    /\ cost_drivers # None
    /\ project_metrics.cyclomatic_avg = 1200
    /\ cost_drivers.CPLX = EAF_VALUES.CPLX[5]
    /\ cost_drivers.VEXP = EAF_VALUES.VEXP[4]
    /\ cost_drivers.LEXP = EAF_VALUES.LEXP[4]
    /\ cost_drivers.DATA = EAF_VALUES.DATA[2]

\* C20: CPLX is the very-high value 1.30 when average complexity > 10, the
\* high value 1.15 when 5 < average complexity <= 10, nominal 1.00 otherwise,
\* with the thresholds of classify_project; the other 14 ratings are the same
\* for every metrics and every project type.
C20_ComplexityRatingThresholds ==
    cost_drivers # None =>
        LET avg == project_metrics.cyclomatic_avg
            \* what the average adds to the score of classify_project
            avg_score == StatedScore([project_metrics EXCEPT !.num_files = 0])
        IN  /\ avg > 10 * 100 => cost_drivers.CPLX = 130
            /\ (5 * 100 < avg /\ avg <= 10 * 100) => cost_drivers.CPLX = 115
            /\ avg <= 5 * 100 => cost_drivers.CPLX = 100
            /\ cost_drivers.CPLX = EAF_VALUES.CPLX[3 + avg_score]
            /\ \A other \in ProjectMetricsDrawn, type \in ProjectTypeArgs :
                \A driver \in Drivers \ {"CPLX"} :
                    EstimateCostDrivers(other, type)[driver] = cost_drivers[driver]

\* C20 witness: average complexity 9 was rated high (1.15), whatever the
\* project type given.
C20_Witness ==
    /\ cost_drivers # None
    /\ project_metrics.cyclomatic_avg = 900
    /\ type_arg = "unknown"
    /\ cost_drivers.CPLX = 115

-----------------------------------------------------------------------------
(* Claims about the estimates of COCOMOCalculator, checked under            *)
(* SpecCOCOMO.                                                              *)

\* an estimate was asked for by the method
Called(method) == cm_call # None /\ cm_call.method = method

\* C21 as stated: a call with an unknown project type, and a call of
\* calculate_intermediate_cocomo whose mapping lacks a rating for one of the
\* 15 drivers, ends with an exception and returns no estimate.
C21_Original_IncompleteInputIsFatal ==
    /\ (cm_call # None /\ cm_call.project_type \notin ProjectTypes)
        => Raised(cm_call.returned)
    /\ (Called("calculate_intermediate_cocomo")
        /\ DOMAIN cm_call.cost_drivers # Drivers)
        => Raised(cm_call.returned)

\* the product of the ratings of a mapping, in billionths, taken from the
\* last driver to the first
RECURSIVE ProductOfRatings(_, _)
ProductOfRatings(drivers, first) ==
    IF first > Len(DriverOrder) THEN Nano
    ELSE IF DriverOrder[first] \in DOMAIN drivers
         THEN MulHundredths(ProductOfRatings(drivers, first + 1),
                            drivers[DriverOrder[first]])
         ELSE ProductOfRatings(drivers, first + 1)

\* a * kloc ** b of the basic model, in millionths
BasicEffort(kloc, ptype) ==
    MulHundredths(Pow(kloc * 1000, BASIC_COEFFICIENTS[ptype].b),
                  BASIC_COEFFICIENTS[ptype].a)

\* C22: in a record calculate_intermediate_cocomo returns, eaf is the product
\* of all the ratings of the mapping (15 for a complete one), effort_pm is
\* the basic effort a * kloc ** b times that product, and base_effort_pm is
\* the effort_pm calculate_basic_cocomo reports for the same KLOC and type.
C22_AdjustedEffortIsBasicTimesEaf ==
    (Called("calculate_intermediate_cocomo") /\ ~Raised(cm_call.returned)) =>
        LET kloc == cm_call.kloc
            ptype == cm_call.project_type
            product == ProductOfRatings(cm_call.cost_drivers, 1)
            estimate == cm_call.returned
        IN  /\ estimate.eaf = Round(product, 10^6)
            /\ estimate.effort_pm
                = Round(MulNano(BasicEffort(kloc, ptype), product), 10^4)
            /\ estimate.base_effort_pm = Round(BasicEffort(kloc, ptype), 10^4)
            /\ estimate.base_effort_pm = CalculateBasicCocomo(kloc, ptype).effort_pm

\* C22 witness: 50 KLOC, semi-detached, all 15 ratings with CPLX high: the
\* factor is 0.492, the basic effort 239.87 and the adjusted effort 118.13.
C22_Witness ==
    /\ Called("calculate_intermediate_cocomo")
    /\ cm_call.kloc = 50 * 1000
    /\ cm_call.project_type = "semi-detached"
    /\ DOMAIN cm_call.cost_drivers = Drivers
    /\ cm_call.cost_drivers.CPLX = 115
    /\ cm_call.returned.eaf = 492
    /\ cm_call.returned.base_effort_pm = 23987
    /\ cm_call.returned.effort_pm = 11813

\* the estimate records the call returned, each with the arguments it was
\* computed from (cost_drivers is None for a basic estimate)
EstimatesReturned ==
    IF cm_call = None \/ Raised(cm_call.returned) THEN {}
    ELSE IF cm_call.method = "analyze_project"
    THEN {[kloc |-> cm_call.returned.kloc,
           project_type |-> cm_call.returned.project_type,
           cost_drivers |-> None,
           estimate |-> cm_call.returned.basic_cocomo],
          [kloc |-> cm_call.returned.kloc,
           project_type |-> cm_call.returned.project_type,
           cost_drivers |-> cm_call.returned.cost_drivers,
           estimate |-> cm_call.returned.intermediate_cocomo]}
    ELSE {[kloc |-> cm_call.kloc,
           project_type |-> cm_call.project_type,
           cost_drivers |-> cm_call.cost_drivers,
           estimate |-> cm_call.returned]}

\* the distance of two integers
Distance(left, right) == IF left >= right THEN left - right ELSE right - left

\* the effort of an estimate before it is rounded, in millionths
UnroundedEffort(e) ==
    IF e.cost_drivers = None
    THEN BasicEffort(e.kloc, e.project_type)
    ELSE MulNano(BasicEffort(e.kloc, e.project_type),
                 EafLoop(e.cost_drivers, Len(DriverOrder)))

\* the duration of an estimate before it is rounded, in millionths
UnroundedTime(e) ==
    MulHundredths(Pow(UnroundedEffort(e), BASIC_COEFFICIENTS[e.project_type].d),
                  BASIC_COEFFICIENTS[e.project_type].c)

\* C23 as stated: in every estimate record returned, avg_people is exactly
\* effort_pm / time_months and productivity is exactly KLOC / effort_pm
\* (avg_people, effort_pm and time_months are hundredths, productivity and
\* KLOC thousandths).
C23_Original_ReportedRatiosExact ==
    \A e \in EstimatesReturned :
        /\ e.estimate.avg_people * e.estimate.time_months = e.estimate.effort_pm * 100
        /\ e.estimate.productivity * e.estimate.effort_pm = e.kloc * 100

\* C23, amended: avg_people is the effort before rounding divided by the
\* duration before rounding, rounded to two decimals, and productivity is
\* KLOC divided by the effort before rounding, rounded to three decimals; so
\* the reported values agree with the quotients of the reported values up to
\* the rounding of each of them, not exactly.
C23_RatiosOfUnroundedValues ==
    \A e \in EstimatesReturned :
        /\ e.estimate.avg_people
            = Round(Quotient(UnroundedEffort(e), UnroundedTime(e)), 10^4)
        /\ e.estimate.productivity
            = Round(Quotient(e.kloc * 1000, UnroundedEffort(e)), 10^3)
        /\ 2 * Distance(e.estimate.avg_people * e.estimate.time_months,
                        e.estimate.effort_pm * 100)
            <= e.estimate.avg_people + e.estimate.time_months + 102
        /\ 2 * Distance(e.estimate.productivity * e.estimate.effort_pm,
                        e.kloc * 100)
            <= e.estimate.productivity + e.estimate.effort_pm + 2

\* C23 witness: the basic estimate of 1 KLOC, organic, reports effort 2.40,
\* duration 3.49 and 0.69 people, while 2.40 / 3.49 is 0.6877.
C23_Witness ==
    /\ Called("calculate_basic_cocomo")
    /\ cm_call.kloc = 1000
    /\ cm_call.project_type = "organic"
    /\ cm_call.returned
        = [effort_pm |-> 240, time_months |-> 349, avg_people |-> 69,
           productivity |-> 417]

\* C30: for KLOC 0 and a known project type the effort a * 0 ** b is 0 and
\* the duration c * 0 ** d is 0, calculate_basic_cocomo and
\* calculate_intermediate_cocomo raise ZeroDivisionError at effort / time,
\* and analyze_project of metrics with no source lines raises it too instead
\* of returning a record.
C30_ZeroKlocRaisesZeroDivision ==
    /\ \A ptype \in ProjectTypes :
        /\ BasicEffort(0, ptype) = 0
        /\ MulHundredths(Pow(0, BASIC_COEFFICIENTS[ptype].d),
                         BASIC_COEFFICIENTS[ptype].c) = 0
    /\ (cm_call # None /\ cm_call.kloc = 0 /\ cm_call.project_type \in ProjectTypes)
        => cm_call.returned = ZeroDivisionError
    /\ (Called("analyze_project") /\ project_metrics.sloc = 0)
        => /\ cm_call.kloc = 0
           /\ cm_call.project_type \in ProjectTypes
           /\ cm_call.returned = ZeroDivisionError

\* C30 witness: analyze_project was called with metrics of 0 source lines,
\* classified organic, and raised ZeroDivisionError.
C30_Witness ==
    /\ Called("analyze_project")
    /\ project_metrics.sloc = 0
    /\ cm_call.project_type = "organic"
    /\ Raised(cm_call.returned)
    /\ cm_call.returned = ZeroDivisionError

-----------------------------------------------------------------------------
(* Further claims about CodebaseAnalyzer, checked under SpecCB.             *)

\* the files of the batch whose Halstead record is defined
HalsteadDefined(files) == {id \in Range(files) : HalsteadOf(Units[id]) # None}

\* the files of the batch that parse and have no Halstead record
HalsteadUndefined(files) ==
    {id \in Range(files) : Units[id].parses /\ HalsteadOf(Units[id]) = None}

\* the entries of a result list that belong to a file
EntriesOf(list, file) == SelectSeq(list, LAMBDA entry : entry.file = file)

\* C24: a file without a Halstead record has no entry in the Halstead results
\* (it is not zero-filled): the Halstead count and the divisors of
\* average_volume and average_difficulty count the files with a record only,
\* while the file is counted by the size analyzer and its functions have
\* their cyclomatic and data-flow records in the results and the summary.
C24_UndefinedHalsteadLeftOut ==
    (cb_pc = "done" /\ python_files # <<>>) =>
        LET s == GenerateSummary(python_files, results)
            defined == HalsteadDefined(python_files)
            count == Cardinality(defined)
            volume == [id \in defined |-> HalsteadOf(Units[id]).volume]
            difficulty == [id \in defined |-> HalsteadOf(Units[id]).difficulty]
        IN  /\ DOMAIN results.halstead = {Units[id].file : id \in defined}
            /\ IF count = 0 THEN s.halstead_summary = EmptyDict
               ELSE /\ s.halstead_summary.total_files_analyzed = count
                    /\ s.halstead_summary.average_volume
                        = SumOver(volume, defined) \div count
                    /\ s.halstead_summary.average_difficulty
                        = SumOver(difficulty, defined) \div count
            /\ results.sloc.files_analyzed = Len(python_files)
            /\ \A id \in HalsteadUndefined(python_files) :
                /\ Units[id].file \notin DOMAIN results.halstead
                /\ results.sloc.total_lines >= Len(Units[id].lines)
                /\ Len(EntriesOf(results.cyclomatic, Units[id].file))
                    >= Len(Units[id].functions)
                /\ Len(EntriesOf(results.dataflow, Units[id].file))
                    >= Len(Units[id].functions)
                /\ Units[id].functions # <<>> =>
                    /\ s.cyclomatic_summary.total_functions
                        >= Len(Units[id].functions)
                    /\ s.dataflow_summary.total_functions_analyzed
                        >= Len(Units[id].functions)

\* C24 witness: the summary of a.py and d.py: d.py has no Halstead record, so
\* one file is in the Halstead section, whose average volume is that of a.py,
\* and both functions are in the other sections.
C24_Witness ==
    /\ cb_pc = "done"
    /\ cb_calls = 1
    /\ python_files = <<"a", "d">>
    /\ summary # None
    /\ summary.halstead_summary.total_files_analyzed = 1
    /\ summary.halstead_summary.average_volume = HalsteadOf(Units.a).volume
    /\ summary.cyclomatic_summary.total_functions = 2
    /\ summary.dataflow_summary.total_functions_analyzed = 2
    /\ summary.sloc_summary.files_analyzed = 2

\* what a fresh CodebaseAnalyzer leaves in results for one file alone
Alone(id) == ResultsFor(<<id>>)

\* the sum of a size counter over the files analyzed alone
RECURSIVE SlocSumAlone(_, _)
SlocSumAlone(files, counter) ==
    IF files = <<>> THEN 0
    ELSE Alone(Head(files)).sloc[counter] + SlocSumAlone(Tail(files), counter)

\* C25: what a file adds to the results is what it gives when analyzed alone,
\* whatever was analyzed before it in the batch: each size counter is the sum
\* of the counters of the files alone (u.py ends with the block state
\* active, and the lines of the file after it are still counted as code),
\* and the cyclomatic, Halstead and data-flow records of a file are those of
\* the file alone.
C25_RecordsDependOnTheUnitOnly ==
    (FirstCallDone /\ python_files # <<>>) =>
        /\ \A counter \in DOMAIN ZeroSloc :
            results.sloc[counter] = SlocSumAlone(python_files, counter)
        /\ \A k \in 1..Len(python_files) :
            LET id == python_files[k]
                file == Units[id].file
            IN  /\ EntriesOf(results.cyclomatic, file) = Alone(id).cyclomatic
                /\ EntriesOf(results.dataflow, file) = Alone(id).dataflow
                /\ IF file \in DOMAIN results.halstead
                   THEN results.halstead[file] = Alone(id).halstead[file]
                   ELSE Alone(id).halstead = EmptyDict

\* C25 witness: u.py, whose only line is a one-line docstring, was analyzed
\* before a.py: one comment line, and the two lines of a.py are source lines.
C25_Witness ==
    /\ FirstCallDone
    /\ python_files = <<"u", "a">>
    /\ SlocFlag(Units.u.lines[1], FALSE)
    /\ results.sloc.comment_lines = 1
    /\ results.sloc.source_lines = 2
    /\ Len(results.cyclomatic) = 1

\* C26: in a non-empty cyclomatic summary, high_complexity_functions holds
\* exactly the records with complexity > 10 (10 itself is not high),
\* total_functions is the number of records, average_complexity is their sum
\* divided by their count, min <= average <= max, and the list is non-empty
\* iff max_complexity > 10.
C26_HighComplexityIsAboveTen ==
    (cb_pc \in {"idle", "done"} /\ results.cyclomatic # <<>>) =>
        LET s == SummarizeCyclomatic(results.cyclomatic)
            records == results.cyclomatic
            high == s.high_complexity_functions
            above == {i \in 1..Len(records) : records[i].complexity > 10}
            sum == SumOver([i \in 1..Len(records) |-> records[i].complexity],
                           1..Len(records))
        IN  /\ Range(high) = {records[i] : i \in above}
            /\ Len(high) = Cardinality(above)
            /\ \A i \in 1..Len(records) :
                records[i].complexity = 10 => records[i] \notin Range(high)
            /\ s.total_functions = Len(records)
            /\ s.average_complexity = (sum * 1000) \div Len(records)
            /\ s.min_complexity * 1000 <= s.average_complexity
            /\ s.average_complexity <= s.max_complexity * 1000
            /\ high # <<>> <=> s.max_complexity > 10

\* C26 witness: the summary of t.py (complexity 10) and b.py (complexity 11):
\* only the function of b.py is listed.
C26_Witness ==
    /\ FirstCallDone
    /\ python_files = <<"t", "b">>
    /\ summary # None
    /\ summary.cyclomatic_summary.total_functions = 2
    /\ summary.cyclomatic_summary.min_complexity = 10
    /\ summary.cyclomatic_summary.max_complexity = 11
    /\ summary.cyclomatic_summary.average_complexity = 10500
    /\ Len(summary.cyclomatic_summary.high_complexity_functions) = 1
    /\ summary.cyclomatic_summary.high_complexity_functions[1].function_name = "g"

\* the listing of the directory, `count` times over
RECURSIVE Listings(_)
Listings(count) == IF count = 0 THEN <<>> ELSE Listings(count - 1) \o codebase

\* C29: analyze clears nothing: after k calls on a directory of F files
\* python_files holds the listing k times over (k * F entries), the j-th call
\* adds the records of j * F files to the cyclomatic and data-flow lists, and
\* from the second call on the summary's file count, size totals and function
\* counts exceed those of a single call.
C29_AnalyzeAccumulates ==
    /\ python_files = Listings(cb_calls)
    /\ Len(python_files) = cb_calls * Len(codebase)
    /\ (cb_pc = "done" /\ codebase # <<>>) =>
        LET once == ResultsFor(codebase)
            first == GenerateSummary(codebase, once)
            now == GenerateSummary(python_files, results)
            passes == (cb_calls * (cb_calls + 1)) \div 2
        IN  /\ Len(results.cyclomatic) = passes * Len(once.cyclomatic)
            /\ Len(results.dataflow) = passes * Len(once.dataflow)
            /\ results.sloc.files_analyzed = cb_calls * Len(codebase)
            /\ results.sloc.total_lines = cb_calls * once.sloc.total_lines
            /\ cb_calls >= 2 =>
                /\ now.total_files > first.total_files
                /\ now.sloc_summary.total_lines > first.sloc_summary.total_lines
                /\ once.cyclomatic # <<>> =>
                    /\ now.cyclomatic_summary.total_functions
                        > first.cyclomatic_summary.total_functions
                    /\ now.dataflow_summary.total_functions_analyzed
                        > first.dataflow_summary.total_functions_analyzed

\* C29 witness: the summary after two calls on a directory that holds a.py:
\* two files, four lines and three function records, against one, two and
\* one after a single call.
C29_Witness ==
    /\ cb_pc = "done"
    /\ cb_calls = 2
    /\ codebase = <<"a">>
    /\ python_files = <<"a", "a">>
    /\ Len(results.cyclomatic) = 3
    /\ summary # None
    /\ summary.total_files = 2
    /\ summary.sloc_summary.total_lines = 4
    /\ summary.cyclomatic_summary.total_functions = 3
    /\ summary.dataflow_summary.total_functions_analyzed = 3

-----------------------------------------------------------------------------
(* Further claims about HalsteadAnalyzer, checked under SpecHAL.            *)

\* what an operand node denotes: an identifier by its spelling, a literal by
\* its type and value
OperandIdentity(node) ==
    IF node.kind = "Constant" THEN <<"literal", node.value[1], node.value[2]>>
    ELSE <<"identifier", node.name>>

\* C27 as stated: n1 counts the distinct operator kinds of the tree, and n2
\* counts the operands of distinct identity, so that the integer 1, the
\* string '1' and an identifier spelled like a string literal are distinct
\* operands.
C27_Original_OperandsByIdentity ==
    (h_pc = "done" /\ h_result # None) =>
        /\ h_result.n1 = Cardinality(TreeOperatorKinds(h_tree))
        /\ h_result.n2
            = Cardinality({OperandIdentity(h_tree[i]) : i \in OperandNodes(h_tree)})

-----------------------------------------------------------------------------
(* A further claim about DataFlowAnalyzer, checked under SpecDF.            *)

\* C28: in every DataFlowMetrics record, each key of def_use_chains is in
\* variables_defined and in variables_used, and its chain is a non-empty list
\* of line numbers, each the line of a node that reads the key.
C28_ChainKeysDefinedAndUsed ==
    \A k \in 1..Len(functions) : LET record == functions[k] IN
        \A n \in DOMAIN record.def_use_chains : LET chain == record.def_use_chains[n] IN
            /\ n \in record.variables_defined
            /\ n \in record.variables_used
            /\ chain # <<>>
            /\ \A e \in 1..Len(chain) :
                \E j \in 1..Len(df_tree) : chain[e] = DFLineNo(j) /\ DFReads(j, n)

\* C28 witness: a function without parameters whose body is `x += ...` and
\* then reads x; its record has the chain of x with both lines.
C28_Witness ==
    /\ Len(df_tree) = 3
    /\ df_tree[1].kind \in FunctionKinds /\ df_tree[1].args = {}
    /\ df_tree[2].kind = "AugAssign" /\ df_tree[2].name = "x"
    /\ df_tree[3].kind = "Name" /\ df_tree[3].ctx = "Load" /\ df_tree[3].name = "x"
    /\ Len(functions) = 1
    /\ DOMAIN functions[1].def_use_chains = {"x"}
    /\ functions[1].def_use_chains["x"] = <<DFLineNo(2), DFLineNo(3)>>
    /\ functions[1].variables_defined = {"x"}
    /\ functions[1].variables_used = {"x"}

====
